---- MODULE Spec2Model ----
(***************************************************************************)
(* Terminal Minesweeper: the game-state engine.                            *)
(*   models/game_models.py   Cell, Difficulty, GameState                   *)
(*   logic/mine_generator.py MineGenerator                                 *)
(*   logic/game_board.py     GameBoard                                     *)
(* Coordinates are pairs <<x, y>>, x the column and y the row.             *)
(***************************************************************************)
EXTENDS Integers, Sequences, FiniteSets, TLC

VARIABLES
    board,       \* GameController.board: None or a GameBoard
    game_state,  \* GameController.game_state: a GameState
    last,        \* the last call made and what it returned
    gen,         \* a direct MineGenerator.generate_mines call: arguments and outcome
    stack,       \* call stack of a reveal_cell cascade executed step by step
    visits,      \* cells on which that reveal_cell call executed cell.reveal(), in order
    entry        \* the board as it was when that reveal_cell call was made

vars == <<board, game_state, last, gen, stack, visits, entry>>

\* Python's None: the empty tuple, which compares unequal to every record and pair
None == <<>>

\* "v = value; rest(v)": the value is computed once, then the statements after it
Then(value, rest(_)) == CHOOSE r \in {rest(v) : v \in {value}} : TRUE

(***************************************************************************)
(* Bounds of the model.                                                    *)
(***************************************************************************)
\* at most this many cells carry a flag at once
MaxFlags == 1

\* the cascade's call stack is cut off at this many frames beyond width*height
StackSlack == 1

(***************************************************************************)
(* models/game_models.py                                                   *)
(***************************************************************************)
\* @dataclass Cell: the field defaults
Cell == [has_mine |-> FALSE, is_revealed |-> FALSE, is_flagged |-> FALSE,
         adjacent_mines |-> 0]

\* can_reveal without the test for a cell already revealed
can_reveal_ignoring_revealed(cell) == ~cell.is_flagged

\* can_reveal without the flag test
can_reveal_ignoring_flag(cell) == ~cell.is_revealed

can_reveal(cell) == ~cell.is_revealed /\ ~cell.is_flagged

can_flag(cell) == ~cell.is_revealed

\* Cell.reveal: <<the cell afterwards, the value returned>>
cell_reveal(cell) ==
    IF can_reveal(cell)
    THEN <<[cell EXCEPT !.is_revealed = TRUE], TRUE>>
    ELSE <<cell, FALSE>>

\* Cell.toggle_flag setting the flag instead of flipping it
cell_toggle_flag_set_only(cell) ==
    IF can_flag(cell)
    THEN <<[cell EXCEPT !.is_flagged = TRUE], TRUE>>
    ELSE <<cell, FALSE>>

\* Cell.toggle_flag: <<the cell afterwards, the value returned>>
cell_toggle_flag(cell) ==
    IF can_flag(cell)
    THEN <<[cell EXCEPT !.is_flagged = ~cell.is_flagged], TRUE>>
    ELSE <<cell, FALSE>>

\* Difficulty.is_valid letting the mines fill the board
is_valid_allowing_full(d) ==
    d.width > 0 /\ d.height > 0 /\ 0 < d.mine_count /\ d.mine_count <= d.width * d.height

\* Difficulty.is_valid
is_valid(d) ==
    d.width > 0 /\ d.height > 0 /\ 0 < d.mine_count /\ d.mine_count < d.width * d.height

\* the fields of a Difficulty, before __post_init__ validates them
Difficulty(name, width, height, mine_count) ==
    [name |-> name, width |-> width, height |-> height, mine_count |-> mine_count]

\* Difficulty.__post_init__ raises ValueError
post_init_raises(d) == ~is_valid(d)

total_cells(d) == d.width * d.height

safe_cells(d) == total_cells(d) - d.mine_count

\* @dataclass GameState: the field defaults
GameState ==
    [status |-> "menu", cursor_x |-> 0, cursor_y |-> 0, start_time |-> None,
     flags_placed |-> 0, cells_revealed |-> 0, current_difficulty |-> None,
     selected_menu_index |-> 0]

\* class GameStatus, class InputCommand: the values
GameStatus == {"menu", "playing", "won", "lost", "exited"}

InputCommand ==
    {"move_up", "move_down", "move_left", "move_right", "select", "flag", "exit", "unknown"}

\* time.time(): the clock is read, its value is never compared
time_time == <<"now">>

\* GameState.start_game leaving the counters of the round before
start_game_keeping_counters(gs, difficulty) ==
    [gs EXCEPT !.status = "playing", !.start_time = time_time,
               !.cursor_x = 0, !.cursor_y = 0,
               !.current_difficulty = difficulty]

\* GameState.start_game
start_game(gs, difficulty) ==
    [gs EXCEPT !.status = "playing", !.start_time = time_time,
               !.cursor_x = 0, !.cursor_y = 0,
               !.flags_placed = 0, !.cells_revealed = 0,
               !.current_difficulty = difficulty]

Max(a, b) == IF a > b THEN a ELSE b

Min(a, b) == IF a < b THEN a ELSE b

\* GameState.move_cursor without the clamp at the far edges
move_cursor_unclamped(gs, dx, dy) ==
    IF gs.current_difficulty = None
    THEN <<gs, FALSE>>
    ELSE LET new_x == Max(0, gs.cursor_x + dx)
             new_y == Max(0, gs.cursor_y + dy)
         IN IF new_x # gs.cursor_x \/ new_y # gs.cursor_y
            THEN <<[gs EXCEPT !.cursor_x = new_x, !.cursor_y = new_y], TRUE>>
            ELSE <<gs, FALSE>>

\* GameState.move_cursor: <<the state afterwards, the value returned>>
move_cursor(gs, dx, dy) ==
    IF gs.current_difficulty = None
    THEN <<gs, FALSE>>
    ELSE LET new_x == Max(0, Min(gs.cursor_x + dx, gs.current_difficulty.width - 1))
             new_y == Max(0, Min(gs.cursor_y + dy, gs.current_difficulty.height - 1))
         IN IF new_x # gs.cursor_x \/ new_y # gs.cursor_y
            THEN <<[gs EXCEPT !.cursor_x = new_x, !.cursor_y = new_y], TRUE>>
            ELSE <<gs, FALSE>>

increment_flags(gs) == [gs EXCEPT !.flags_placed = @ + 1]

\* decrement_flags leaving the count as it is
decrement_flags_keeping_count(gs) == gs

decrement_flags(gs) == IF gs.flags_placed > 0 THEN [gs EXCEPT !.flags_placed = @ - 1] ELSE gs

\* DEFAULT_DIFFICULTIES, each board scaled down to a size that can be explored: the
\* first has cells where the first reveal leaves no room for the mine, the second
\* can be won by the first reveal, the third has two mines
DEFAULT_DIFFICULTIES ==
    <<Difficulty("Beginner", 3, 2, 1),
      Difficulty("Intermediate", 4, 1, 1),
      Difficulty("Expert", 5, 1, 2)>>

(***************************************************************************)
(* logic/mine_generator.py                                                 *)
(***************************************************************************)
\* the iteration order of "for dx in [-1, 0, 1]: for dy in [-1, 0, 1]"
Deltas == << <<-1, -1>>, <<-1, 0>>, <<-1, 1>>,
             << 0, -1>>, << 0, 0>>, << 0, 1>>,
             << 1, -1>>, << 1, 0>>, << 1, 1>> >>

\* generate_mines, lines 33-38: every position of the board
all_positions(d) == (0 .. d.width - 1) \X (0 .. d.height - 1)

\* candidate_positions with line 46-52 left out: only the safe position is discarded
candidate_positions_safe_only(d, safe_position) ==
    IF safe_position = None THEN all_positions(d) ELSE all_positions(d) \ {safe_position}

\* the safe position discarded with its orthogonal neighbours only
candidate_positions_orthogonal(d, safe_position) ==
    IF safe_position = None
    THEN all_positions(d)
    ELSE {p \in all_positions(d) :
             Max(p[1] - safe_position[1], safe_position[1] - p[1])
               + Max(p[2] - safe_position[2], safe_position[2] - p[2]) > 1}

\* the discard turned around: the safe position and its neighbours are what is kept
candidate_positions_inverted(d, safe_position) ==
    IF safe_position = None
    THEN all_positions(d)
    ELSE {p \in all_positions(d) :
             /\ Max(p[1] - safe_position[1], safe_position[1] - p[1]) <= 1
             /\ Max(p[2] - safe_position[2], safe_position[2] - p[2]) <= 1}

\* generate_mines, lines 40-52: the positions left after discarding the safe
\* position and its neighbours; an out-of-board safe position discards nothing
candidate_positions(d, safe_position) ==
    IF safe_position = None
    THEN all_positions(d)
    ELSE LET x == safe_position[1]
             y == safe_position[2]
         IN IF 0 <= x /\ x < d.width /\ 0 <= y /\ y < d.height
            THEN all_positions(d) \
                 ({<<x, y>>} \cup
                  {<<x + Deltas[i][1], y + Deltas[i][2]>> : i \in DOMAIN Deltas})
            ELSE all_positions(d)

\* generate_mines raising already when the mines would fill the candidate pool
generate_mines_raises_when_full(d, safe_position) ==
    \/ ~is_valid(d)
    \/ d.mine_count >= Cardinality(candidate_positions(d, safe_position))

\* generate_mines, lines 30-31 and 54-60: the call raises ValueError
generate_mines_raises(d, safe_position) ==
    \/ ~is_valid(d)
    \/ d.mine_count > Cardinality(candidate_positions(d, safe_position))

RECURSIVE random_sample(_, _)
\* set(random.Random.sample(population, k)): k elements drawn one after the other
\* without replacement; every such draw is possible
random_sample(population, k) ==
    IF k = 0
    THEN {{}}
    ELSE UNION {{rest \cup {p} : rest \in random_sample(population \ {p}, k - 1)} :
                p \in population}

\* generate_mines drawing one position too few
generate_mines_one_short(d, safe_position) ==
    LET pool == candidate_positions(d, safe_position)
    IN random_sample(pool, Min(d.mine_count, Cardinality(pool)) - 1)

\* generate_mines, lines 62-70: the sets the call may return when it does not raise
generate_mines(d, safe_position) ==
    LET pool == candidate_positions(d, safe_position)
    IN random_sample(pool, Min(d.mine_count, Cardinality(pool)))

(***************************************************************************)
(* logic/game_board.py                                                     *)
(***************************************************************************)
\* GameBoard.__init__
GameBoard(d) ==
    [difficulty |-> d, width |-> d.width, height |-> d.height,
     mine_count |-> d.mine_count,
     cells |-> [p \in (0 .. d.width - 1) \X (0 .. d.height - 1) |-> Cell],
     mine_positions |-> {},
     is_initialized |-> FALSE]

is_valid_position(b, x, y) == 0 <= x /\ x < b.width /\ 0 <= y /\ y < b.height

\* the eight (dx, dy) of the loops that skip dx == 0 and dy == 0, in loop order
NeighbourDeltas == SelectSeq(Deltas, LAMBDA d : d # <<0, 0>>)

\* count_adjacent_mines looking only at the four cells sharing an edge
count_adjacent_mines_orthogonal(b, x, y) ==
    Cardinality({i \in DOMAIN NeighbourDeltas :
        LET adj_x == x + NeighbourDeltas[i][1]
            adj_y == y + NeighbourDeltas[i][2]
        IN /\ NeighbourDeltas[i][1] = 0 \/ NeighbourDeltas[i][2] = 0
           /\ is_valid_position(b, adj_x, adj_y) /\ b.cells[<<adj_x, adj_y>>].has_mine})

count_adjacent_mines(b, x, y) ==
    Cardinality({i \in DOMAIN NeighbourDeltas :
        LET adj_x == x + NeighbourDeltas[i][1]
            adj_y == y + NeighbourDeltas[i][2]
        IN is_valid_position(b, adj_x, adj_y) /\ b.cells[<<adj_x, adj_y>>].has_mine})

calculate_adjacent_counts(b) ==
    [b EXCEPT !.cells =
        [p \in DOMAIN b.cells |->
            IF ~b.cells[p].has_mine
            THEN [b.cells[p] EXCEPT !.adjacent_mines = count_adjacent_mines(b, p[1], p[2])]
            ELSE b.cells[p]]]

\* initialize_mines raises what generate_mines raises, before it assigns anything
initialize_mines_raises(b, safe_position) ==
    ~b.is_initialized /\ generate_mines_raises(b.difficulty, safe_position)

\* initialize_mines without the early return of lines 35-36
initialize_mines_again(b, safe_position, mines) ==
    LET placed == [b EXCEPT
            !.mine_positions = mines,
            !.cells = [p \in DOMAIN b.cells |->
                          IF p \in mines
                          THEN [b.cells[p] EXCEPT !.has_mine = TRUE]
                          ELSE b.cells[p]]]
    IN [calculate_adjacent_counts(placed) EXCEPT !.is_initialized = TRUE]

\* initialize_mines, mines being the set generate_mines returned
initialize_mines(b, safe_position, mines) ==
    IF b.is_initialized
    THEN b
    ELSE LET placed == [b EXCEPT
                 !.mine_positions = mines,
                 !.cells = [p \in DOMAIN b.cells |->
                               IF p \in mines
                               THEN [b.cells[p] EXCEPT !.has_mine = TRUE]
                               ELSE b.cells[p]]]
         IN [calculate_adjacent_counts(placed) EXCEPT !.is_initialized = TRUE]

\* reveal_all_mines showing the mines and nothing else
reveal_all_mines_hiding_rest(b) ==
    [b EXCEPT !.cells =
        [p \in DOMAIN b.cells |->
            [b.cells[p] EXCEPT !.is_revealed = p \in b.mine_positions]]]

\* reveal_all_mines going through Cell.reveal, which refuses a flagged cell
reveal_all_mines_through_reveal(b) ==
    [b EXCEPT !.cells =
        [p \in DOMAIN b.cells |->
            IF p \in b.mine_positions
            THEN cell_reveal(b.cells[p])[1]
            ELSE b.cells[p]]]

reveal_all_mines(b) ==
    [b EXCEPT !.cells =
        [p \in DOMAIN b.cells |->
            IF p \in b.mine_positions
            THEN [b.cells[p] EXCEPT !.is_revealed = TRUE]
            ELSE b.cells[p]]]

RECURSIVE reveal_cell(_, _, _, _)
RECURSIVE auto_reveal_from(_, _, _, _)
RECURSIVE auto_reveal_from_skipping_last(_, _, _, _)

\* _auto_reveal_adjacent with a loop that stops before the last neighbour
auto_reveal_from_skipping_last(b, x, y, i) ==
    IF i >= Len(NeighbourDeltas)
    THEN b
    ELSE LET adj_x == x + NeighbourDeltas[i][1]
             adj_y == y + NeighbourDeltas[i][2]
         IN IF /\ is_valid_position(b, adj_x, adj_y)
               /\ can_reveal(b.cells[<<adj_x, adj_y>>])
            THEN Then(reveal_cell(b, adj_x, adj_y, {}).board,
                      LAMBDA next : auto_reveal_from_skipping_last(next, x, y, i + 1))
            ELSE auto_reveal_from_skipping_last(b, x, y, i + 1)

\* _auto_reveal_adjacent: the neighbours from the i-th on, in loop order, each
\* revealed on the board the earlier ones left
auto_reveal_from(b, x, y, i) ==
    IF i > Len(NeighbourDeltas)
    THEN b
    ELSE LET adj_x == x + NeighbourDeltas[i][1]
             adj_y == y + NeighbourDeltas[i][2]
         IN IF /\ is_valid_position(b, adj_x, adj_y)
               /\ can_reveal(b.cells[<<adj_x, adj_y>>])
            THEN Then(reveal_cell(b, adj_x, adj_y, {}).board,
                      LAMBDA next : auto_reveal_from(next, x, y, i + 1))
            ELSE auto_reveal_from(b, x, y, i + 1)

auto_reveal_adjacent(b, x, y) == auto_reveal_from(b, x, y, 1)

Outcome(b, success, hit_mine, raised) ==
    [board |-> b, success |-> success, hit_mine |-> hit_mine, raised |-> raised]

\* reveal_accepted with the mines revealed at once when one is hit
reveal_accepted_mass_reveal(b, x, y, mines) ==
    Then(IF ~b.is_initialized THEN initialize_mines(b, <<x, y>>, mines) ELSE b,
         LAMBDA b1 :
    Then([b1 EXCEPT !.cells[<<x, y>>] = cell_reveal(b1.cells[<<x, y>>])[1]],
         LAMBDA b2 :
    IF b2.cells[<<x, y>>].has_mine
    THEN Outcome(reveal_all_mines(b2), TRUE, TRUE, FALSE)
    ELSE IF b2.cells[<<x, y>>].adjacent_mines = 0
    THEN Outcome(auto_reveal_adjacent(b2, x, y), TRUE, FALSE, FALSE)
    ELSE Outcome(b2, TRUE, FALSE, FALSE)))

\* reveal_accepted cascading from every cell without a mine, numbered or not
reveal_accepted_cascading_from_numbers(b, x, y, mines) ==
    Then(IF ~b.is_initialized THEN initialize_mines(b, <<x, y>>, mines) ELSE b,
         LAMBDA b1 :
    Then([b1 EXCEPT !.cells[<<x, y>>] = cell_reveal(b1.cells[<<x, y>>])[1]],
         LAMBDA b2 :
    IF b2.cells[<<x, y>>].has_mine
    THEN Outcome(b2, TRUE, TRUE, FALSE)
    ELSE Outcome(auto_reveal_adjacent(b2, x, y), TRUE, FALSE, FALSE)))

\* reveal_cell, lines 101-117, on a cell that passed the checks: mines placed on the
\* first reveal, the cell revealed, then the mine test and the cascade
reveal_accepted(b, x, y, mines) ==
    Then(IF ~b.is_initialized THEN initialize_mines(b, <<x, y>>, mines) ELSE b,
         LAMBDA b1 :
    Then([b1 EXCEPT !.cells[<<x, y>>] = cell_reveal(b1.cells[<<x, y>>])[1]],
         LAMBDA b2 :
    IF b2.cells[<<x, y>>].has_mine
    THEN Outcome(b2, TRUE, TRUE, FALSE)
    ELSE IF b2.cells[<<x, y>>].adjacent_mines = 0
    THEN Outcome(auto_reveal_adjacent(b2, x, y), TRUE, FALSE, FALSE)
    ELSE Outcome(b2, TRUE, FALSE, FALSE)))

\* reveal_cell with the can_reveal check of lines 98-99 left out
reveal_cell_unchecked(b, x, y, mines) ==
    IF ~is_valid_position(b, x, y)
    THEN Outcome(b, FALSE, FALSE, FALSE)
    ELSE IF initialize_mines_raises(b, <<x, y>>)
    THEN Outcome(b, FALSE, FALSE, TRUE)
    ELSE reveal_accepted(b, x, y, mines)

\* reveal_cell with cell.reveal() executed before the mines are placed
reveal_cell_reveals_first(b, x, y, mines) ==
    IF ~is_valid_position(b, x, y)
    THEN Outcome(b, FALSE, FALSE, FALSE)
    ELSE IF ~can_reveal(b.cells[<<x, y>>])
    THEN Outcome(b, FALSE, FALSE, FALSE)
    ELSE IF initialize_mines_raises(b, <<x, y>>)
    THEN Outcome([b EXCEPT !.cells[<<x, y>>] = cell_reveal(b.cells[<<x, y>>])[1]],
                 FALSE, FALSE, TRUE)
    ELSE reveal_accepted(b, x, y, mines)

\* reveal_cell(x, y): the board afterwards and the tuple returned, or raised when
\* mine generation raises; mines is the set generate_mines draws if it is called
reveal_cell(b, x, y, mines) ==
    IF ~is_valid_position(b, x, y)
    THEN Outcome(b, FALSE, FALSE, FALSE)
    ELSE IF ~can_reveal(b.cells[<<x, y>>])
    THEN Outcome(b, FALSE, FALSE, FALSE)
    ELSE IF initialize_mines_raises(b, <<x, y>>)
    THEN Outcome(b, FALSE, FALSE, TRUE)
    ELSE reveal_accepted(b, x, y, mines)

\* toggle_flag(x, y): <<the board afterwards, the value returned>>
toggle_flag(b, x, y) ==
    IF ~is_valid_position(b, x, y)
    THEN <<b, FALSE>>
    ELSE LET r == cell_toggle_flag(b.cells[<<x, y>>])
         IN <<[b EXCEPT !.cells[<<x, y>>] = r[1]], r[2]>>

get_cell(b, x, y) == IF ~is_valid_position(b, x, y) THEN None ELSE b.cells[<<x, y>>]

\* "for row in self.cells: for cell in row": the k-th cell visited, k from 0
scan_position(b, k) == <<k % b.width, k \div b.width>>

RECURSIVE count_from(_, _, _)
\* the counting loops of get_revealed_count and get_flag_count from the k-th cell on
count_from(b, k, field) ==
    IF k >= b.width * b.height
    THEN 0
    ELSE (IF b.cells[scan_position(b, k)][field] THEN 1 ELSE 0) + count_from(b, k + 1, field)

\* get_revealed_count reading the field get_flag_count reads
get_revealed_count_of_flags(b) == count_from(b, 0, "is_flagged")

get_revealed_count(b) == count_from(b, 0, "is_revealed")

get_flag_count(b) == count_from(b, 0, "is_flagged")

RECURSIVE solved_from_every_cell(_, _)
\* solved_from asking every cell, mined or not, to be revealed
solved_from_every_cell(b, k) ==
    IF k >= b.width * b.height
    THEN TRUE
    ELSE IF ~b.cells[scan_position(b, k)].is_revealed
         THEN FALSE
         ELSE solved_from_every_cell(b, k + 1)

RECURSIVE solved_from(_, _)
\* the loop of is_solved from the k-th cell on: False at the first unrevealed safe cell
solved_from(b, k) ==
    IF k >= b.width * b.height
    THEN TRUE
    ELSE LET cell == b.cells[scan_position(b, k)]
         IN IF ~cell.has_mine /\ ~cell.is_revealed
            THEN FALSE
            ELSE solved_from(b, k + 1)

is_solved(b) == IF ~b.is_initialized THEN FALSE ELSE solved_from(b, 0)

(***************************************************************************)
(* logic/game_controller.py and the dispatch of main.py                    *)
(***************************************************************************)
\* GameController: the fields a command reads and writes
Controller(gs, b) == [game_state |-> gs, board |-> b]

\* self.difficulties, set in __init__ and appended to by no command
difficulties == DEFAULT_DIFFICULTIES

\* a handler has run: the controller afterwards, the value returned (None when the
\* handler returns nothing), and whether an exception left the handler instead
Handled(gs, b, returned, raised) ==
    [game_state |-> gs, board |-> b, returned |-> returned, raised |-> raised]

start_new_game(c, difficulty) ==
    Handled(start_game(c.game_state, difficulty), GameBoard(difficulty), None, FALSE)

\* process_menu_command with the menu ending at the last difficulty
process_menu_command_short_menu(c, command) ==
    LET gs == c.game_state
    IN IF command = "exit"
       THEN Handled([gs EXCEPT !.status = "exited"], c.board, FALSE, FALSE)
       ELSE IF command = "move_up"
       THEN Handled(IF gs.selected_menu_index > 0
                    THEN [gs EXCEPT !.selected_menu_index = @ - 1]
                    ELSE gs,
                    c.board, TRUE, FALSE)
       ELSE IF command = "move_down"
       THEN LET max_index == Len(difficulties) - 1
            IN Handled(IF gs.selected_menu_index < max_index
                       THEN [gs EXCEPT !.selected_menu_index = @ + 1]
                       ELSE gs,
                       c.board, TRUE, FALSE)
       ELSE IF command = "select"
       THEN LET selected == gs.selected_menu_index
            IN IF selected = Len(difficulties)
               THEN Handled([gs EXCEPT !.status = "exited"], c.board, FALSE, FALSE)
               ELSE IF 0 <= selected /\ selected < Len(difficulties)
               THEN [start_new_game(c, difficulties[selected + 1]) EXCEPT !.returned = TRUE]
               ELSE Handled(gs, c.board, TRUE, FALSE)
       ELSE Handled(gs, c.board, TRUE, FALSE)

\* process_menu_command without the test for the exit entry
process_menu_command_no_exit_entry(c, command) ==
    LET gs == c.game_state
    IN IF command = "exit"
       THEN Handled([gs EXCEPT !.status = "exited"], c.board, FALSE, FALSE)
       ELSE IF command = "move_up"
       THEN Handled(IF gs.selected_menu_index > 0
                    THEN [gs EXCEPT !.selected_menu_index = @ - 1]
                    ELSE gs,
                    c.board, TRUE, FALSE)
       ELSE IF command = "move_down"
       THEN LET max_index == Len(difficulties)
            IN Handled(IF gs.selected_menu_index < max_index
                       THEN [gs EXCEPT !.selected_menu_index = @ + 1]
                       ELSE gs,
                       c.board, TRUE, FALSE)
       ELSE IF command = "select"
       THEN LET selected == gs.selected_menu_index
            IN IF 0 <= selected /\ selected < Len(difficulties)
               THEN [start_new_game(c, difficulties[selected + 1]) EXCEPT !.returned = TRUE]
               ELSE Handled(gs, c.board, TRUE, FALSE)
       ELSE Handled(gs, c.board, TRUE, FALSE)

process_menu_command(c, command) ==
    LET gs == c.game_state
    IN IF command = "exit"
       THEN Handled([gs EXCEPT !.status = "exited"], c.board, FALSE, FALSE)
       ELSE IF command = "move_up"
       THEN Handled(IF gs.selected_menu_index > 0
                    THEN [gs EXCEPT !.selected_menu_index = @ - 1]
                    ELSE gs,
                    c.board, TRUE, FALSE)
       ELSE IF command = "move_down"
       THEN LET max_index == Len(difficulties)
            IN Handled(IF gs.selected_menu_index < max_index
                       THEN [gs EXCEPT !.selected_menu_index = @ + 1]
                       ELSE gs,
                       c.board, TRUE, FALSE)
       ELSE IF command = "select"
       THEN LET selected == gs.selected_menu_index
            IN IF selected = Len(difficulties)
               THEN Handled([gs EXCEPT !.status = "exited"], c.board, FALSE, FALSE)
               ELSE IF 0 <= selected /\ selected < Len(difficulties)
               THEN [start_new_game(c, difficulties[selected + 1]) EXCEPT !.returned = TRUE]
               ELSE Handled(gs, c.board, TRUE, FALSE)
       ELSE Handled(gs, c.board, TRUE, FALSE)

\* _handle_cell_reveal without the reveal_all_mines call
handle_cell_reveal_mines_hidden(c, mines) ==
    LET gs == c.game_state
    IN IF c.board = None \/ gs.status # "playing"
       THEN Handled(gs, c.board, None, FALSE)
       ELSE Then(reveal_cell(c.board, gs.cursor_x, gs.cursor_y, mines),
                 LAMBDA r :
                    IF r.raised
                    THEN Handled(gs, r.board, None, TRUE)
                    ELSE IF ~r.success
                    THEN Handled(gs, r.board, None, FALSE)
                    ELSE IF r.hit_mine
                    THEN Handled([gs EXCEPT !.status = "lost"], r.board, None, FALSE)
                    ELSE Handled([gs EXCEPT !.cells_revealed = get_revealed_count(r.board),
                                            !.status = IF is_solved(r.board) THEN "won" ELSE @],
                                 r.board, None, FALSE))

\* _handle_cell_reveal counting one more cell (increment_revealed) instead of asking
\* the board for its count
handle_cell_reveal_counting_one(c, mines) ==
    LET gs == c.game_state
    IN IF c.board = None \/ gs.status # "playing"
       THEN Handled(gs, c.board, None, FALSE)
       ELSE Then(reveal_cell(c.board, gs.cursor_x, gs.cursor_y, mines),
                 LAMBDA r :
                    IF r.raised
                    THEN Handled(gs, r.board, None, TRUE)
                    ELSE IF ~r.success
                    THEN Handled(gs, r.board, None, FALSE)
                    ELSE IF r.hit_mine
                    THEN Handled([gs EXCEPT !.status = "lost"],
                                 reveal_all_mines(r.board), None, FALSE)
                    ELSE Handled([gs EXCEPT !.cells_revealed = @ + 1,
                                            !.status = IF is_solved(r.board) THEN "won" ELSE @],
                                 r.board, None, FALSE))

\* _handle_cell_reveal asking is_solved of the board as it was before the reveal
handle_cell_reveal_win_check_before(c, mines) ==
    LET gs == c.game_state
    IN IF c.board = None \/ gs.status # "playing"
       THEN Handled(gs, c.board, None, FALSE)
       ELSE Then(reveal_cell(c.board, gs.cursor_x, gs.cursor_y, mines),
                 LAMBDA r :
                    IF r.raised
                    THEN Handled(gs, r.board, None, TRUE)
                    ELSE IF ~r.success
                    THEN Handled(gs, r.board, None, FALSE)
                    ELSE IF r.hit_mine
                    THEN Handled([gs EXCEPT !.status = "lost"],
                                 reveal_all_mines(r.board), None, FALSE)
                    ELSE Handled([gs EXCEPT !.cells_revealed = get_revealed_count(r.board),
                                            !.status = IF is_solved(c.board) THEN "won" ELSE @],
                                 r.board, None, FALSE))

\* _handle_cell_reveal updating cells_revealed after the mines of a lost round are shown
handle_cell_reveal_counting_shown_mines(c, mines) ==
    LET gs == c.game_state
    IN IF c.board = None \/ gs.status # "playing"
       THEN Handled(gs, c.board, None, FALSE)
       ELSE Then(reveal_cell(c.board, gs.cursor_x, gs.cursor_y, mines),
                 LAMBDA r :
                    IF r.raised
                    THEN Handled(gs, r.board, None, TRUE)
                    ELSE IF ~r.success
                    THEN Handled(gs, r.board, None, FALSE)
                    ELSE IF r.hit_mine
                    THEN Then(reveal_all_mines(r.board),
                              LAMBDA shown :
                                 Handled([gs EXCEPT !.status = "lost",
                                                    !.cells_revealed = get_revealed_count(shown)],
                                         shown, None, FALSE))
                    ELSE Handled([gs EXCEPT !.cells_revealed = get_revealed_count(r.board),
                                            !.status = IF is_solved(r.board) THEN "won" ELSE @],
                                 r.board, None, FALSE))

\* _handle_cell_reveal; mines is what generate_mines returns if it is called
handle_cell_reveal(c, mines) ==
    LET gs == c.game_state
    IN IF c.board = None \/ gs.status # "playing"
       THEN Handled(gs, c.board, None, FALSE)
       ELSE Then(reveal_cell(c.board, gs.cursor_x, gs.cursor_y, mines),
                 LAMBDA r :
                    IF r.raised
                    THEN Handled(gs, r.board, None, TRUE)
                    ELSE IF ~r.success
                    THEN Handled(gs, r.board, None, FALSE)
                    ELSE IF r.hit_mine
                    THEN Handled([gs EXCEPT !.status = "lost"],
                                 reveal_all_mines(r.board), None, FALSE)
                    ELSE Handled([gs EXCEPT !.cells_revealed = get_revealed_count(r.board),
                                            !.status = IF is_solved(r.board) THEN "won" ELSE @],
                                 r.board, None, FALSE))

\* _handle_cell_flag counting a cleared flag as one more flag
handle_cell_flag_always_increment(c) ==
    LET gs == c.game_state
    IN IF c.board = None \/ gs.status # "playing"
       THEN Handled(gs, c.board, None, FALSE)
       ELSE LET cell == get_cell(c.board, gs.cursor_x, gs.cursor_y)
            IN IF cell = None
               THEN Handled(gs, c.board, None, FALSE)
               ELSE IF ~can_flag(cell)
               THEN Handled(gs, c.board, None, FALSE)
               ELSE LET was_flagged == cell.is_flagged
                        r == toggle_flag(c.board, gs.cursor_x, gs.cursor_y)
                    IN IF r[2]
                       THEN Handled(increment_flags(gs), r[1], None, FALSE)
                       ELSE Handled(gs, r[1], None, FALSE)

\* _handle_cell_flag
handle_cell_flag(c) ==
    LET gs == c.game_state
    IN IF c.board = None \/ gs.status # "playing"
       THEN Handled(gs, c.board, None, FALSE)
       ELSE LET cell == get_cell(c.board, gs.cursor_x, gs.cursor_y)
            IN IF cell = None
               THEN Handled(gs, c.board, None, FALSE)
               ELSE IF ~can_flag(cell)
               THEN Handled(gs, c.board, None, FALSE)
               ELSE LET was_flagged == cell.is_flagged
                        r == toggle_flag(c.board, gs.cursor_x, gs.cursor_y)
                    IN IF r[2]
                       THEN Handled(IF was_flagged
                                    THEN decrement_flags(gs)
                                    ELSE increment_flags(gs),
                                    r[1], None, FALSE)
                       ELSE Handled(gs, r[1], None, FALSE)

\* process_game_command with a last branch taken by every command left, not by FLAG alone
process_game_command_else_flag(c, command, mines) ==
    LET gs == c.game_state
    IN IF command = "exit"
       THEN Handled([gs EXCEPT !.status = "menu", !.selected_menu_index = 0],
                    c.board, FALSE, FALSE)
       ELSE IF c.board = None
       THEN Handled(gs, c.board, FALSE, FALSE)
       ELSE IF command = "move_up"
       THEN Handled(move_cursor(gs, 0, -1)[1], c.board, TRUE, FALSE)
       ELSE IF command = "move_down"
       THEN Handled(move_cursor(gs, 0, 1)[1], c.board, TRUE, FALSE)
       ELSE IF command = "move_left"
       THEN Handled(move_cursor(gs, -1, 0)[1], c.board, TRUE, FALSE)
       ELSE IF command = "move_right"
       THEN Handled(move_cursor(gs, 1, 0)[1], c.board, TRUE, FALSE)
       ELSE IF command = "select"
       THEN Then(handle_cell_reveal(c, mines),
                 LAMBDA h : IF h.raised THEN h ELSE [h EXCEPT !.returned = TRUE])
       ELSE [handle_cell_flag(c) EXCEPT !.returned = TRUE]

\* process_game_command leaving the round on no command: EXIT is ignored
process_game_command_exit_ignored(c, command, mines) ==
    LET gs == c.game_state
    IN IF command = "exit"
       THEN Handled(gs, c.board, FALSE, FALSE)
       ELSE IF c.board = None
       THEN Handled(gs, c.board, FALSE, FALSE)
       ELSE IF command = "move_up"
       THEN Handled(move_cursor(gs, 0, -1)[1], c.board, TRUE, FALSE)
       ELSE IF command = "move_down"
       THEN Handled(move_cursor(gs, 0, 1)[1], c.board, TRUE, FALSE)
       ELSE IF command = "move_left"
       THEN Handled(move_cursor(gs, -1, 0)[1], c.board, TRUE, FALSE)
       ELSE IF command = "move_right"
       THEN Handled(move_cursor(gs, 1, 0)[1], c.board, TRUE, FALSE)
       ELSE IF command = "select"
       THEN Then(handle_cell_reveal(c, mines),
                 LAMBDA h : IF h.raised THEN h ELSE [h EXCEPT !.returned = TRUE])
       ELSE IF command = "flag"
       THEN [handle_cell_flag(c) EXCEPT !.returned = TRUE]
       ELSE Handled(gs, c.board, TRUE, FALSE)

\* process_game_command
process_game_command(c, command, mines) ==
    LET gs == c.game_state
    IN IF command = "exit"
       THEN Handled([gs EXCEPT !.status = "menu", !.selected_menu_index = 0],
                    c.board, FALSE, FALSE)
       ELSE IF c.board = None
       THEN Handled(gs, c.board, FALSE, FALSE)
       ELSE IF command = "move_up"
       THEN Handled(move_cursor(gs, 0, -1)[1], c.board, TRUE, FALSE)
       ELSE IF command = "move_down"
       THEN Handled(move_cursor(gs, 0, 1)[1], c.board, TRUE, FALSE)
       ELSE IF command = "move_left"
       THEN Handled(move_cursor(gs, -1, 0)[1], c.board, TRUE, FALSE)
       ELSE IF command = "move_right"
       THEN Handled(move_cursor(gs, 1, 0)[1], c.board, TRUE, FALSE)
       ELSE IF command = "select"
       THEN Then(handle_cell_reveal(c, mines),
                 LAMBDA h : IF h.raised THEN h ELSE [h EXCEPT !.returned = TRUE])
       ELSE IF command = "flag"
       THEN [handle_cell_flag(c) EXCEPT !.returned = TRUE]
       ELSE Handled(gs, c.board, TRUE, FALSE)

\* restart_current_game resetting the GameState and keeping the board
restart_current_game_keeping_board(c) ==
    IF c.game_state.current_difficulty = None
    THEN Handled(c.game_state, c.board, FALSE, FALSE)
    ELSE Handled(start_game(c.game_state, c.game_state.current_difficulty),
                 c.board, TRUE, FALSE)

\* restart_current_game, which nothing in the program calls
restart_current_game(c) ==
    IF c.game_state.current_difficulty = None
    THEN Handled(c.game_state, c.board, FALSE, FALSE)
    ELSE [start_new_game(c, c.game_state.current_difficulty) EXCEPT !.returned = TRUE]

\* process_game_over_command: the handler of the game-over phase, which
\* _process_command does not call (it repeats lines 175-185 inline)
process_game_over_command(c, command) ==
    IF command = "exit"
    THEN Handled([c.game_state EXCEPT !.status = "menu", !.selected_menu_index = 0],
                 c.board, TRUE, FALSE)
    ELSE IF command = "select"
    THEN Handled([c.game_state EXCEPT !.status = "menu", !.selected_menu_index = 0],
                 c.board, TRUE, FALSE)
    ELSE Handled(c.game_state, c.board, TRUE, FALSE)

\* _process_command leaving the menu index where it was after a finished round
process_command_keeping_index(c, command, mines) ==
    LET status == c.game_state.status
    IN IF status = "menu"
       THEN [process_menu_command(c, command) EXCEPT !.returned = None]
       ELSE IF status = "playing"
       THEN Then(process_game_command(c, command, mines),
                 LAMBDA h : [h EXCEPT !.returned = None])
       ELSE IF status \in {"won", "lost"}
       THEN IF command \in {"select", "exit"}
            THEN Handled([c.game_state EXCEPT !.status = "menu"], c.board, None, FALSE)
            ELSE Handled(c.game_state, c.board, None, FALSE)
       ELSE Handled(c.game_state, c.board, None, FALSE)

\* _process_command sending a finished round to the handler of a running one
process_command_game_when_over(c, command, mines) ==
    LET status == c.game_state.status
    IN IF status = "menu"
       THEN [process_menu_command(c, command) EXCEPT !.returned = None]
       ELSE IF status \in {"playing", "won", "lost"}
       THEN Then(process_game_command(c, command, mines),
                 LAMBDA h : [h EXCEPT !.returned = None])
       ELSE Handled(c.game_state, c.board, None, FALSE)

\* _process_command sending every phase that is not a round to the menu handler
process_command_menu_when_exited(c, command, mines) ==
    LET status == c.game_state.status
    IN IF status = "playing"
       THEN Then(process_game_command(c, command, mines),
                 LAMBDA h : [h EXCEPT !.returned = None])
       ELSE IF status \in {"won", "lost"}
       THEN IF command \in {"select", "exit"}
            THEN Handled([c.game_state EXCEPT !.status = "menu", !.selected_menu_index = 0],
                         c.board, None, FALSE)
            ELSE Handled(c.game_state, c.board, None, FALSE)
       ELSE [process_menu_command(c, command) EXCEPT !.returned = None]

\* MinesweeperApp._process_command
process_command(c, command, mines) ==
    LET status == c.game_state.status
    IN IF status = "menu"
       THEN [process_menu_command(c, command) EXCEPT !.returned = None]
       ELSE IF status = "playing"
       THEN Then(process_game_command(c, command, mines),
                 LAMBDA h : [h EXCEPT !.returned = None])
       ELSE IF status \in {"won", "lost"}
       THEN IF command \in {"select", "exit"}
            THEN Handled([c.game_state EXCEPT !.status = "menu", !.selected_menu_index = 0],
                         c.board, None, FALSE)
            ELSE Handled(c.game_state, c.board, None, FALSE)
       ELSE Handled(c.game_state, c.board, None, FALSE)

\* add_custom_difficulty: self.difficulties afterwards
add_custom_difficulty(offered, difficulty) ==
    IF is_valid(difficulty) THEN Append(offered, difficulty) ELSE offered

(***************************************************************************)
(* MineGenerator.generate_mines called directly on its arguments.          *)
(***************************************************************************)
\* the boards generate_mines is called on: sides and mine counts up to these
MaxGenSide == 3
MaxGenMines == 2

GenDifficulties ==
    {d \in {Difficulty("Test", w, h, m) :
                w \in 1 .. MaxGenSide, h \in 1 .. MaxGenSide, m \in 1 .. MaxGenMines} :
        is_valid(d)}

\* the safe positions tried on d: every cell, the ring around the board, and None
GenSafePositions(d) == ((-1 .. d.width) \X (-1 .. d.height)) \cup {None}

NoGen == [difficulty |-> Difficulty("Test", 2, 1, 1), safe_position |-> None,
          state |-> "idle", mines |-> {}]

NoCall == [op |-> "none", x |-> 0, y |-> 0, success |-> FALSE, hit_mine |-> FALSE,
           raised |-> FALSE]

GenInit ==
    /\ \E d \in GenDifficulties : \E s \in GenSafePositions(d) :
          gen = [difficulty |-> d, safe_position |-> s, state |-> "called", mines |-> {}]
    /\ board = None
    /\ game_state = GameState
    /\ last = NoCall
    /\ stack = <<>>
    /\ visits = <<>>
    /\ entry = None

GenerateMinesReturns ==
    /\ gen.state = "called"
    /\ ~generate_mines_raises(gen.difficulty, gen.safe_position)
    /\ \E mines \in generate_mines(gen.difficulty, gen.safe_position) :
          gen' = [gen EXCEPT !.state = "returned", !.mines = mines]
    /\ UNCHANGED <<board, game_state, last, stack, visits, entry>>

GenerateMinesRaises ==
    /\ gen.state = "called"
    /\ generate_mines_raises(gen.difficulty, gen.safe_position)
    /\ gen' = [gen EXCEPT !.state = "raised"]
    /\ UNCHANGED <<board, game_state, last, stack, visits, entry>>

GenNext == GenerateMinesReturns \/ GenerateMinesRaises

SpecGen == GenInit /\ [][GenNext]_vars

(***************************************************************************)
(* GameBoard driven call by call through its public methods.               *)
(***************************************************************************)
\* the boards the calls are made on
BoardDifficulties == {Difficulty("Test", 3, 2, 1), Difficulty("Test", 5, 1, 2)}

Positions(b) == (0 .. b.width - 1) \X (0 .. b.height - 1)

\* the coordinates passed to a board: every cell, and four outside it, one for each
\* comparison of _is_valid_position
Coordinates(b) ==
    DOMAIN b.cells \cup {<<-1, 0>>, <<0, -1>>, <<b.width, 0>>, <<0, b.height>>}

Returned(op, x, y, success, hit_mine, raised) ==
    [op |-> op, x |-> x, y |-> y, success |-> success, hit_mine |-> hit_mine,
     raised |-> raised]

\* what generate_mines may return to reveal_cell(x, y), {} standing for no call
DrawnMines(b, x, y) ==
    IF /\ is_valid_position(b, x, y)
       /\ can_reveal(b.cells[<<x, y>>])
       /\ ~b.is_initialized
       /\ ~generate_mines_raises(b.difficulty, <<x, y>>)
    THEN generate_mines(b.difficulty, <<x, y>>)
    ELSE {{}}

\* the safe positions passed to initialize_mines: once the board is initialized
\* the argument is never read, and one position stands for all
SafePositions(b) == IF b.is_initialized THEN {<<0, 0>>} ELSE Coordinates(b)

BoardInit ==
    /\ \E d \in BoardDifficulties : board = GameBoard(d)
    /\ game_state = GameState
    /\ last = NoCall
    /\ gen = NoGen
    /\ stack = <<>>
    /\ visits = <<>>
    /\ entry = None

BoardRevealCell ==
    /\ stack = <<>>
    /\ \E c \in Coordinates(board) : \E mines \in DrawnMines(board, c[1], c[2]) :
          \E r \in {reveal_cell(board, c[1], c[2], mines)} :
             /\ board' = r.board
             /\ last' = Returned("reveal_cell", c[1], c[2], r.success, r.hit_mine, r.raised)
    /\ UNCHANGED <<game_state, gen, stack, visits, entry>>

BoardToggleFlag ==
    /\ stack = <<>>
    /\ \E c \in Coordinates(board) : \E r \in {toggle_flag(board, c[1], c[2])} :
          /\ Cardinality({p \in DOMAIN r[1].cells : r[1].cells[p].is_flagged}) <= MaxFlags
          /\ board' = r[1]
          /\ last' = Returned("toggle_flag", c[1], c[2], r[2], FALSE, FALSE)
    /\ UNCHANGED <<game_state, gen, stack, visits, entry>>

BoardRevealAllMines ==
    /\ stack = <<>>
    /\ board' = reveal_all_mines(board)
    /\ last' = Returned("reveal_all_mines", 0, 0, TRUE, FALSE, FALSE)
    /\ UNCHANGED <<game_state, gen, stack, visits, entry>>

BoardInitializeMines ==
    /\ stack = <<>>
    /\ \E c \in SafePositions(board) :
          IF initialize_mines_raises(board, c)
          THEN /\ board' = board
               /\ last' = Returned("initialize_mines", c[1], c[2], FALSE, FALSE, TRUE)
          ELSE \E mines \in (IF board.is_initialized
                              THEN {{}}
                              ELSE generate_mines(board.difficulty, c)) :
                 /\ board' = initialize_mines(board, c, mines)
                 /\ last' = Returned("initialize_mines", c[1], c[2], TRUE, FALSE, FALSE)
    /\ UNCHANGED <<game_state, gen, stack, visits, entry>>

BoardNext ==
    \/ BoardRevealCell
    \/ BoardToggleFlag
    \/ BoardRevealAllMines
    \/ BoardInitializeMines

SpecBoard == BoardInit /\ [][BoardNext]_vars

Abs(n) == IF n < 0 THEN -n ELSE n

\* p is q or one of q's eight neighbours
Near(p, q) == Abs(p[1] - q[1]) <= 1 /\ Abs(p[2] - q[2]) <= 1

OnBoard(d, p) == p # None /\ p[1] \in 0 .. d.width - 1 /\ p[2] \in 0 .. d.height - 1

\* the cells of d's board that are neither s nor a neighbour of s
FarCells(d, s) == {p \in (0 .. d.width - 1) \X (0 .. d.height - 1) : ~Near(p, s)}

\* C1: generate_mines, called with a valid Difficulty and a safe coordinate on the
\* board that leaves at least mineCount cells outside its 3x3 block, returns exactly
\* mineCount distinct coordinates of the board, none of them the safe coordinate or
\* one of its neighbours.
C1_GenerateMinesContract ==
    (/\ gen.state # "called"
     /\ OnBoard(gen.difficulty, gen.safe_position)
     /\ Cardinality(FarCells(gen.difficulty, gen.safe_position)) >= gen.difficulty.mine_count)
    => /\ gen.state = "returned"
       /\ Cardinality(gen.mines) = gen.difficulty.mine_count
       /\ gen.mines \subseteq FarCells(gen.difficulty, gen.safe_position)

\* a call that returned two mines for a safe coordinate in a corner, where the
\* candidate pool had more cells than mines
C1_Witness ==
    /\ gen.state = "returned"
    /\ gen.safe_position = <<0, 0>>
    /\ gen.difficulty.width = 3 /\ gen.difficulty.height = 3
    /\ gen.mines = {<<2, 0>>, <<1, 2>>}

(***************************************************************************)
(* reveal_cell executed one call at a time.  A frame <<x, y, i>> of the     *)
(* stack is a running _auto_reveal_adjacent(x, y) about to look at its     *)
(* i-th neighbour; the reveal_cell call that made it returns with it.      *)
(***************************************************************************)
\* the boards the cascade runs on
CascadeDifficulties == {Difficulty("Test", 3, 3, 1)}

Frame(x, y, i) == [x |-> x, y |-> y, i |-> i]

\* RevealAndDescend calling _auto_reveal_adjacent for every safe cell, numbered or not
RevealAndDescend_any_count(b, x, y, frames) ==
    /\ board' = [b EXCEPT !.cells[<<x, y>>] = cell_reveal(b.cells[<<x, y>>])[1]]
    /\ visits' = Append(IF frames = <<>> THEN <<>> ELSE visits, <<x, y>>)
    /\ stack' = IF ~b.cells[<<x, y>>].has_mine
                THEN Append(frames, Frame(x, y, 1))
                ELSE frames

\* reveal_cell from "cell.reveal()" on, for a cell of board b that passed the
\* checks: the cell is revealed and recorded, and a cell with no mine and no mined
\* neighbour calls _auto_reveal_adjacent, a new frame on frames
RevealAndDescend(b, x, y, frames) ==
    /\ board' = [b EXCEPT !.cells[<<x, y>>] = cell_reveal(b.cells[<<x, y>>])[1]]
    /\ visits' = Append(IF frames = <<>> THEN <<>> ELSE visits, <<x, y>>)
    /\ stack' = IF ~b.cells[<<x, y>>].has_mine /\ b.cells[<<x, y>>].adjacent_mines = 0
                THEN Append(frames, Frame(x, y, 1))
                ELSE frames

CascadeInit ==
    /\ \E d \in CascadeDifficulties : board = GameBoard(d)
    /\ game_state = GameState
    /\ last = NoCall
    /\ gen = NoGen
    /\ stack = <<>>
    /\ visits = <<>>
    /\ entry = None

\* a reveal_cell(x, y) call from outside that passes the checks of lines 93-99 and
\* whose mine generation does not raise, up to its first nested call
CascadeCall ==
    /\ stack = <<>>
    /\ \E c \in Positions(board) :
          /\ is_valid_position(board, c[1], c[2])
          /\ can_reveal(board.cells[c])
          /\ ~initialize_mines_raises(board, c)
          /\ \E mines \in DrawnMines(board, c[1], c[2]) :
             \E b1 \in {IF ~board.is_initialized
                         THEN initialize_mines(board, c, mines)
                         ELSE board} :
                /\ RevealAndDescend(b1, c[1], c[2], <<>>)
                /\ last' = Returned("reveal_cell", c[1], c[2], TRUE,
                                    b1.cells[c].has_mine, FALSE)
    /\ entry' = board
    /\ UNCHANGED <<game_state, gen>>

\* the running _auto_reveal_adjacent looks at its next neighbour and calls
\* reveal_cell on it when it is on the board and can be revealed
CascadeStep ==
    /\ stack # <<>>
    /\ Len(stack) < board.width * board.height + StackSlack
    /\ LET top == stack[Len(stack)]
           below == SubSeq(stack, 1, Len(stack) - 1)
       IN IF top.i > Len(NeighbourDeltas)
          THEN /\ stack' = below
               /\ UNCHANGED <<board, visits>>
          ELSE LET adj_x == top.x + NeighbourDeltas[top.i][1]
                   adj_y == top.y + NeighbourDeltas[top.i][2]
                   frames == Append(below, Frame(top.x, top.y, top.i + 1))
               IN IF /\ is_valid_position(board, adj_x, adj_y)
                     /\ can_reveal(board.cells[<<adj_x, adj_y>>])
                  THEN RevealAndDescend(board, adj_x, adj_y, frames)
                  ELSE /\ stack' = frames
                       /\ UNCHANGED <<board, visits>>
    /\ UNCHANGED <<game_state, last, gen, entry>>

\* toggle_flag(x, y) between two reveal_cell calls; what was recorded of the last
\* reveal_cell call is dropped
CascadeToggleFlag ==
    /\ stack = <<>>
    /\ \E c \in Positions(board) : \E r \in {toggle_flag(board, c[1], c[2])} :
          /\ Cardinality({p \in DOMAIN r[1].cells : r[1].cells[p].is_flagged}) <= MaxFlags
          /\ board' = r[1]
    /\ last' = NoCall
    /\ visits' = <<>>
    /\ entry' = None
    /\ UNCHANGED <<game_state, gen, stack>>

CascadeNext == CascadeCall \/ CascadeStep \/ CascadeToggleFlag

\* the interpreter goes on executing a call that has not returned
SpecCascade == CascadeInit /\ [][CascadeNext]_vars /\ WF_vars(CascadeStep)

(***************************************************************************)
(* The application: commands dispatched to the GameController one at a     *)
(* time by MinesweeperApp._process_command.                                *)
(***************************************************************************)
\* a command has been processed; raised: an exception left _process_command
Delivered(command, raised) == [op |-> "command", command |-> command, raised |-> raised]

NoCommand == [op |-> "none", command |-> "unknown", raised |-> FALSE]

\* what generate_mines may return to the reveal_cell call of this command
CommandMines(command) ==
    IF game_state.status = "playing" /\ command = "select" /\ board # None
    THEN DrawnMines(board, game_state.cursor_x, game_state.cursor_y)
    ELSE {{}}

\* the flags on the board stay within the bound
WithinMaxFlags(b) ==
    IF b = None
    THEN TRUE
    ELSE Cardinality({p \in DOMAIN b.cells : b.cells[p].is_flagged}) <= MaxFlags

\* _process_command(command) runs to its end
ProcessCommand(command) ==
    /\ stack = <<>>
    /\ \E mines \in CommandMines(command) :
       \E h \in {process_command(Controller(game_state, board), command, mines)} :
          /\ WithinMaxFlags(h.board)
          /\ game_state' = h.game_state
          /\ board' = h.board
          /\ last' = Delivered(command, h.raised)
    /\ UNCHANGED <<gen, stack, visits, entry>>

\* GameController.__init__
ControllerInit ==
    /\ game_state = GameState
    /\ board = None
    /\ last = NoCommand
    /\ gen = NoGen
    /\ stack = <<>>
    /\ visits = <<>>
    /\ entry = None

MenuCommand ==
    /\ game_state.status = "menu"
    /\ \E command \in InputCommand : ProcessCommand(command)

GameCommand ==
    /\ game_state.status = "playing"
    /\ \E command \in InputCommand : ProcessCommand(command)

GameOverCommand ==
    /\ game_state.status \in {"won", "lost"}
    /\ \E command \in InputCommand : ProcessCommand(command)

ExitedCommand ==
    /\ game_state.status = "exited"
    /\ \E command \in InputCommand : ProcessCommand(command)

ControllerNext == MenuCommand \/ GameCommand \/ GameOverCommand \/ ExitedCommand

SpecController == ControllerInit /\ [][ControllerNext]_vars

(***************************************************************************)
(* The application with Select executed call by call: _handle_cell_reveal  *)
(* calls reveal_cell, the cascade runs frame by frame as above, and the    *)
(* handler goes on when reveal_cell has returned.  The main loop reads the *)
(* next command when _process_command has returned.                        *)
(***************************************************************************)
\* _handle_cell_reveal is inside its reveal_cell call
Running(command) == [op |-> "running", command |-> command, raised |-> FALSE]

\* the main loop is at get_command: no command is being processed
Idle == stack = <<>> /\ last.op # "running"

\* Select in Playing on a cursor cell that reveal_cell accepts
SelectAccepted(command) ==
    /\ command = "select"
    /\ game_state.status = "playing"
    /\ can_reveal(board.cells[<<game_state.cursor_x, game_state.cursor_y>>])
    /\ ~initialize_mines_raises(board, <<game_state.cursor_x, game_state.cursor_y>>)

\* Select enters reveal_cell: the mines are placed if they are not, the cursor cell
\* is revealed and, on a cell without mined neighbours, the cascade begins
SelectBegins ==
    /\ Idle
    /\ SelectAccepted("select")
    /\ \E mines \in DrawnMines(board, game_state.cursor_x, game_state.cursor_y) :
       \E b1 \in {IF ~board.is_initialized
                   THEN initialize_mines(board, <<game_state.cursor_x, game_state.cursor_y>>, mines)
                   ELSE board} :
          RevealAndDescend(b1, game_state.cursor_x, game_state.cursor_y, <<>>)
    /\ last' = Running("select")
    /\ entry' = board
    /\ UNCHANGED <<game_state, gen>>

\* _handle_cell_reveal going on at once, whatever is left of the cascade
SelectReturns_without_waiting ==
    /\ last.op = "running"
    /\ IF board.cells[<<game_state.cursor_x, game_state.cursor_y>>].has_mine
       THEN /\ board' = reveal_all_mines(board)
            /\ game_state' = [game_state EXCEPT !.status = "lost"]
       ELSE /\ board' = board
            /\ game_state' = [game_state EXCEPT
                                 !.cells_revealed = get_revealed_count(board),
                                 !.status = IF is_solved(board) THEN "won" ELSE @]
    /\ last' = Delivered("select", FALSE)
    /\ visits' = <<>>
    /\ entry' = None
    /\ UNCHANGED <<gen, stack>>

\* reveal_cell has returned (True, hit_mine): lines 108-119 of _handle_cell_reveal;
\* what was recorded of the call is dropped
SelectReturns ==
    /\ last.op = "running"
    /\ stack = <<>>
    /\ IF board.cells[<<game_state.cursor_x, game_state.cursor_y>>].has_mine
       THEN /\ board' = reveal_all_mines(board)
            /\ game_state' = [game_state EXCEPT !.status = "lost"]
       ELSE /\ board' = board
            /\ game_state' = [game_state EXCEPT
                                 !.cells_revealed = get_revealed_count(board),
                                 !.status = IF is_solved(board) THEN "won" ELSE @]
    /\ last' = Delivered("select", FALSE)
    /\ visits' = <<>>
    /\ entry' = None
    /\ UNCHANGED <<gen, stack>>

\* every other command, and a Select that reveal_cell rejects or that fails
OtherCommand ==
    /\ Idle
    /\ \E command \in InputCommand :
          /\ ~SelectAccepted(command)
          /\ ProcessCommand(command)

SelectNext == SelectBegins \/ CascadeStep \/ SelectReturns \/ OtherCommand

SpecSelect == ControllerInit /\ [][SelectNext]_vars

(***************************************************************************)
(* The controller with restart_current_game called on it between commands. *)
(***************************************************************************)
\* what restart_current_game returned
Restarted(returned) ==
    [op |-> "restart_current_game", command |-> "unknown", raised |-> FALSE,
     returned |-> returned]

RestartCurrentGame ==
    /\ stack = <<>>
    /\ \E h \in {restart_current_game(Controller(game_state, board))} :
          /\ game_state' = h.game_state
          /\ board' = h.board
          /\ last' = Restarted(h.returned)
    /\ UNCHANGED <<gen, stack, visits, entry>>

RestartNext == ControllerNext \/ RestartCurrentGame

SpecRestart == ControllerInit /\ [][RestartNext]_vars

(***************************************************************************)
(* The first reveal of a round on the boards as they are shipped: the      *)
(* placement test of generate_mines at every coordinate of each board.     *)
(* The mines themselves are not drawn: only whether the call raises.       *)
(***************************************************************************)
\* DEFAULT_DIFFICULTIES with the sizes of the source
ShippedDifficulties ==
    <<Difficulty("Beginner", 9, 9, 10),
      Difficulty("Intermediate", 16, 16, 40),
      Difficulty("Expert", 30, 16, 99)>>

\* a round on one of the shipped boards, the cursor on any cell, nothing revealed
ShippedInit ==
    /\ \E i \in DOMAIN ShippedDifficulties :
       \E s \in all_positions(ShippedDifficulties[i]) :
          gen = [difficulty |-> ShippedDifficulties[i], safe_position |-> s,
                 state |-> "called", mines |-> {}]
    /\ board = None
    /\ game_state = GameState
    /\ last = NoCall
    /\ stack = <<>>
    /\ visits = <<>>
    /\ entry = None

\* the first reveal reaches the test of lines 54-60: generate_mines raises or goes
\* on to draw the mines
ShippedFirstReveal ==
    /\ gen.state = "called"
    /\ gen' = [gen EXCEPT !.state = IF generate_mines_raises(gen.difficulty,
                                                             gen.safe_position)
                                    THEN "raised"
                                    ELSE "drawing"]
    /\ UNCHANGED <<board, game_state, last, stack, visits, entry>>

ShippedNext == ShippedFirstReveal

SpecShipped == ShippedInit /\ [][ShippedNext]_vars

(***************************************************************************)
(* A Difficulty constructed from arbitrary numbers and, when the           *)
(* construction succeeds, offered to a new controller.                     *)
(***************************************************************************)
\* the numbers tried for width and height, and for mine_count
DifficultySides == -1 .. MaxGenSide

DifficultyMines == -1 .. MaxGenSide * MaxGenSide + 1

\* Difficulty(name, width, height, mine_count) was called: the object made, None
\* when __post_init__ raised
Constructed(fields) ==
    [op |-> "Difficulty", fields |-> fields, raised |-> post_init_raises(fields),
     value |-> IF post_init_raises(fields) THEN None ELSE fields,
     difficulties |-> difficulties]

DifficultyInit ==
    /\ last = NoCall
    /\ board = None
    /\ game_state = GameState
    /\ gen = NoGen
    /\ stack = <<>>
    /\ visits = <<>>
    /\ entry = None

ConstructDifficulty ==
    /\ last.op = "none"
    /\ \E w \in DifficultySides, h \in DifficultySides, m \in DifficultyMines :
          last' = Constructed(Difficulty("Custom", w, h, m))
    /\ UNCHANGED <<board, game_state, gen, stack, visits, entry>>

\* GameController().add_custom_difficulty(the object made)
AddCustomDifficulty ==
    /\ last.op = "Difficulty"
    /\ ~last.raised
    /\ last' = [last EXCEPT !.op = "add_custom_difficulty",
                            !.difficulties = add_custom_difficulty(@, last.value)]
    /\ UNCHANGED <<board, game_state, gen, stack, visits, entry>>

DifficultyNext == ConstructDifficulty \/ AddCustomDifficulty

SpecDifficulty == DifficultyInit /\ [][DifficultyNext]_vars

(***************************************************************************)
(* Claims about GameBoard.                                                 *)
(***************************************************************************)
MineCells(b) == {p \in Positions(b) : b.cells[p].has_mine}

RevealedCells(b) == {p \in Positions(b) : b.cells[p].is_revealed}

FlaggedCells(b) == {p \in Positions(b) : b.cells[p].is_flagged}

\* the cells of the board around p, p excluded
Neighbours(b, p) == {q \in Positions(b) : q # p /\ Near(q, p)}

\* the position the last call was made at
LastAt(l) == <<l.x, l.y>>

\* C2: on an initialized board every cell without a mine carries in adjacentMines
\* the number of mined cells among its neighbours on the board, a number in 0..8.
C2_AdjacentCounts ==
    board.is_initialized =>
        \A p \in Positions(board) :
            ~board.cells[p].has_mine =>
                /\ board.cells[p].adjacent_mines =
                       Cardinality(Neighbours(board, p) \cap MineCells(board))
                /\ board.cells[p].adjacent_mines \in 0 .. 8

\* an initialized 3x2 board whose mine touches a safe cell only by a corner
C2_Witness ==
    /\ board.is_initialized
    /\ board.width = 3
    /\ MineCells(board) = {<<2, 0>>}
    /\ board.cells[<<1, 1>>].adjacent_mines = 1
    /\ board.cells[<<0, 1>>].adjacent_mines = 0

\* C3: mines are placed at most once.  An accepted reveal_cell leaves the board
\* initialized, only an accepted reveal_cell or initialize_mines initializes it, and
\* once it is initialized no call changes the mine set, hasMine or adjacentMines.
C3_MinesPlacedOnce ==
    [][/\ (last'.op = "reveal_cell" /\ last'.success) => board'.is_initialized
       /\ (~board.is_initialized /\ board'.is_initialized) =>
             \/ last'.op = "reveal_cell" /\ last'.success
             \/ last'.op = "initialize_mines"
       /\ board.is_initialized =>
             /\ board'.is_initialized
             /\ board'.mine_positions = board.mine_positions
             /\ \A p \in Positions(board) :
                   /\ board'.cells[p].has_mine = board.cells[p].has_mine
                   /\ board'.cells[p].adjacent_mines = board.cells[p].adjacent_mines]_vars

\* initialize_mines called again on a board that already has revealed cells
C3_Witness ==
    /\ last.op = "initialize_mines"
    /\ board.is_initialized
    /\ RevealedCells(board) # {}
    /\ Cardinality(board.mine_positions) = 2

\* C4: while isInitialized is false the mine set is empty and no cell has a mine;
\* once it is true the mine set has exactly mineCount coordinates and the cells with
\* hasMine are exactly those coordinates.
C4_MineSetMatchesCells ==
    /\ ~board.is_initialized =>
          board.mine_positions = {} /\ MineCells(board) = {}
    /\ board.is_initialized =>
          /\ Cardinality(board.mine_positions) = board.mine_count
          /\ MineCells(board) = board.mine_positions

\* a board initialized by its first reveal, two mines placed
C4_Witness ==
    /\ board.is_initialized
    /\ last.op = "reveal_cell" /\ last.success
    /\ Cardinality(MineCells(board)) = 2

\* C5: reveal_cell on a flagged cell returns (False, False) and changes nothing:
\* no cell, and on a board not yet initialized no mine is placed.
C5_RevealFlaggedRejected ==
    [][(/\ last'.op = "reveal_cell"
        /\ LastAt(last') \in Positions(board)
        /\ board.cells[LastAt(last')].is_flagged)
       => /\ board' = board
          /\ ~last'.success /\ ~last'.hit_mine /\ ~last'.raised]_vars

\* the first reveal call of a board, made on a flagged cell
C5_Witness ==
    /\ last.op = "reveal_cell"
    /\ LastAt(last) \in Positions(board)
    /\ board.cells[LastAt(last)].is_flagged
    /\ ~board.is_initialized
    /\ ~last.success

\* C6: reveal_cell with coordinates outside the board, negative ones included, or on
\* a cell already revealed returns accepted = False and changes no cell, not the
\* mine set and not isInitialized.
C6_RevealOutsideOrRevealedRejected ==
    [][(/\ last'.op = "reveal_cell"
        /\ \/ LastAt(last') \notin Positions(board)
           \/ board.cells[LastAt(last')].is_revealed)
       => /\ board' = board
          /\ ~last'.success /\ ~last'.raised]_vars

\* a reveal at x = -1 on a board that has revealed cells
C6_Witness ==
    /\ last.op = "reveal_cell"
    /\ last.x = -1
    /\ ~last.success
    /\ RevealedCells(board) # {}

\* C7: an accepted reveal_cell on a mined cell returns (True, True) and changes the
\* board in one place only: that cell becomes revealed.
C7_RevealMineOnlyThatCell ==
    [][(/\ last'.op = "reveal_cell"
        /\ LastAt(last') \in Positions(board)
        /\ ~board.cells[LastAt(last')].is_revealed
        /\ ~board.cells[LastAt(last')].is_flagged
        /\ board.cells[LastAt(last')].has_mine)
       => /\ last'.success /\ last'.hit_mine /\ ~last'.raised
          /\ board' = [board EXCEPT !.cells[LastAt(last')].is_revealed = TRUE]]_vars

\* a mine was hit while the other mine stays hidden and a flag is on the board
C7_Witness ==
    /\ last.op = "reveal_cell" /\ last.hit_mine
    /\ board.cells[LastAt(last)].has_mine
    /\ \E p \in MineCells(board) : ~board.cells[p].is_revealed
    /\ FlaggedCells(board) # {}
    /\ \E p \in Positions(board) :
          ~board.cells[p].has_mine /\ ~board.cells[p].is_revealed

\* C10: is_solved returns False while the mines are not placed, and otherwise True
\* exactly when every cell without a mine is revealed.
C10_IsSolved ==
    is_solved(board) =
        (/\ board.is_initialized
         /\ \A p \in Positions(board) :
               ~board.cells[p].has_mine => board.cells[p].is_revealed)

\* a solved board: every safe cell revealed, a mine still hidden
C10_Witness ==
    /\ is_solved(board)
    /\ \E p \in MineCells(board) : ~board.cells[p].is_revealed
    /\ Positions(board) \ MineCells(board) \subseteq RevealedCells(board)

\* a reveal_cell call has returned: (True, False)
CascadeReturnedSafe ==
    stack = <<>> /\ last.op = "reveal_cell" /\ last.success /\ ~last.hit_mine

\* the cell has no mine and no mined neighbour
ZeroCell(b, p) == ~b.cells[p].has_mine /\ b.cells[p].adjacent_mines = 0

\* unflagged and not revealed when the call was made
WasRevealable(p) == ~entry.cells[p].is_flagged /\ ~entry.cells[p].is_revealed

RECURSIVE ZeroPathClosure(_)
\* the cells reached from region by 8-connected paths whose cells before the last
\* are zero cells that were revealable, and whose last cell was revealable
ZeroPathClosure(region) ==
    LET more == {q \in Positions(board) \ region :
                    /\ WasRevealable(q)
                    /\ \E p \in region : Near(p, q) /\ ZeroCell(board, p)}
    IN IF more = {} THEN region ELSE ZeroPathClosure(region \cup more)

\* C8: after an accepted reveal_cell(c) that hit no mine, the cells newly revealed are
\* c and, when c is a zero cell, every cell reached from c by an 8-connected path of
\* unflagged, previously unrevealed zero cells ending in an unflagged, previously
\* unrevealed cell; the cascade reveals no flagged cell and no mine.
C8_CascadeRevealsZeroRegion ==
    CascadeReturnedSafe =>
        LET new == RevealedCells(board) \ RevealedCells(entry)
        IN /\ new = ZeroPathClosure({LastAt(last)})
           /\ new \cap FlaggedCells(board) = {}
           /\ new \cap MineCells(board) = {}
           /\ FlaggedCells(board) = FlaggedCells(entry)

\* a cascade on the 3x3 board that a flag cut short: it started in a zero cell, a
\* zero cell next to the flag stays hidden, and a numbered cell was revealed
C8_Witness ==
    /\ CascadeReturnedSafe
    /\ board.width = 3
    /\ ZeroCell(board, LastAt(last))
    /\ \E f \in FlaggedCells(board) : \E z \in Neighbours(board, f) :
          /\ ZeroCell(board, z) /\ ZeroCell(board, f)
          /\ ~board.cells[z].is_revealed
    /\ \E p \in RevealedCells(board) \ RevealedCells(entry) : ~ZeroCell(board, p)
    /\ Cardinality(RevealedCells(board) \ RevealedCells(entry)) >= 3

\* the returned board is the one the recursive reveal_cell computes in one go
CascadeAgreesWithRevealCell ==
    (stack = <<>> /\ last.op = "reveal_cell") =>
        board = reveal_cell(entry, last.x, last.y, board.mine_positions).board

\* C9: the cascade a reveal_cell call starts always terminates, and while it runs
\* cell.reveal() is executed at most once per cell, at most width*height times.
C9_CascadeTerminates ==
    /\ [](/\ Cardinality({visits[i] : i \in DOMAIN visits}) = Len(visits)
          /\ Len(visits) <= board.width * board.height
          /\ Len(stack) <= board.width * board.height
          /\ {visits[i] : i \in DOMAIN visits} \subseteq RevealedCells(board))
    /\ (stack # <<>>) ~> (stack = <<>>)

\* a single call whose cascade has returned after revealing every safe cell of the board
C9_Witness ==
    /\ stack = <<>>
    /\ last.op = "reveal_cell"
    /\ Len(visits) = board.width * board.height - board.mine_count
    /\ RevealedCells(entry) = {}

\* C11 as stated: on every reachable board is_solved() is true exactly when
\* get_revealed_count() equals width*height - mine_count.
C11_SolvedIffRevealedCount ==
    is_solved(board) <=>
        get_revealed_count(board) = board.width * board.height - board.mine_count

\* C11, amended: on every reachable board on which no mine cell is revealed,
\* is_solved() is true exactly when get_revealed_count() equals
\* width*height - mine_count.
C11_SolvedIffRevealedCountNoMineShown ==
    (MineCells(board) \cap RevealedCells(board) = {}) =>
        (is_solved(board) <=>
            get_revealed_count(board) = board.width * board.height - board.mine_count)

\* a solved board with no mine shown, reached by reveal_cell
C11_Witness ==
    /\ last.op = "reveal_cell" /\ last.success
    /\ is_solved(board)
    /\ MineCells(board) \cap RevealedCells(board) = {}
    /\ get_revealed_count(board) = board.width * board.height - board.mine_count

\* the cells of two boards differ at most in the flag of the cell at c
SameButFlagAt(b1, b2, c) ==
    /\ [b1 EXCEPT !.cells = b2.cells] = b2
    /\ \A p \in Positions(b2) :
          /\ b1.cells[p].is_revealed = b2.cells[p].is_revealed
          /\ b1.cells[p].has_mine = b2.cells[p].has_mine
          /\ b1.cells[p].adjacent_mines = b2.cells[p].adjacent_mines
          /\ p # c => b1.cells[p].is_flagged = b2.cells[p].is_flagged

\* C12: toggle_flag called twice on the same unrevealed cell of the board returns
\* True both times and leaves the cell's flag as it was; called twice on a revealed
\* cell or outside the board it returns False both times and changes nothing; no
\* call changes is_revealed, has_mine or adjacent_mines of a cell or another cell's flag.
C12_ToggleFlagTwice ==
    \A c \in Coordinates(board) :
        LET once == toggle_flag(board, c[1], c[2])
            twice == toggle_flag(once[1], c[1], c[2])
        IN /\ SameButFlagAt(once[1], board, c)
           /\ SameButFlagAt(twice[1], once[1], c)
           /\ IF is_valid_position(board, c[1], c[2]) /\ ~board.cells[c].is_revealed
              THEN /\ once[2] /\ twice[2]
                   /\ once[1].cells[c].is_flagged = ~board.cells[c].is_flagged
                   /\ twice[1] = board
              ELSE /\ ~once[2] /\ ~twice[2]
                   /\ once[1] = board
                   /\ twice[1] = board

\* toggle_flag has just cleared a flag it had set before, next to a revealed cell
C12_Witness ==
    /\ last.op = "toggle_flag" /\ last.success
    /\ ~board.cells[LastAt(last)].is_flagged
    /\ RevealedCells(board) # {}
    /\ FlaggedCells(board) = {}

\* C13: reveal_all_mines sets is_revealed on every mine cell, flagged or not, and
\* changes nothing else: no other cell's is_revealed, no flag, no mine, no count.
C13_RevealAllMinesFrame ==
    [][last'.op = "reveal_all_mines" =>
          /\ \A p \in Positions(board) :
                /\ board'.cells[p].is_revealed =
                      (board.cells[p].is_revealed \/ board.cells[p].has_mine)
                /\ board'.cells[p].is_flagged = board.cells[p].is_flagged
                /\ board'.cells[p].has_mine = board.cells[p].has_mine
                /\ board'.cells[p].adjacent_mines = board.cells[p].adjacent_mines
          /\ [board' EXCEPT !.cells = board.cells] = board]_vars

\* reveal_all_mines has run on a board with a flagged mine and a hidden safe cell
C13_Witness ==
    /\ last.op = "reveal_all_mines"
    /\ \E p \in MineCells(board) : board.cells[p].is_flagged /\ board.cells[p].is_revealed
    /\ \E p \in Positions(board) \ MineCells(board) : ~board.cells[p].is_revealed

(***************************************************************************)
(* Claims about the GameController.                                        *)
(***************************************************************************)
\* the cell under the cursor
Cursor(gs) == <<gs.cursor_x, gs.cursor_y>>

\* the step processes this command in this phase
Processes(status, command) ==
    game_state.status = status /\ last'.op = "command" /\ last'.command = command

\* every mine cell of the board is revealed
AllMinesShown(b) == \A p \in Positions(b) : b.cells[p].has_mine => b.cells[p].is_revealed

\* the step is Select in Menu on a difficulty: a new round, with a new board
NewRound ==
    /\ Processes("menu", "select")
    /\ game_state.selected_menu_index < Len(difficulties)

\* C14: in Playing, Select on a cursor cell that holds a mine and is neither revealed
\* nor flagged moves the phase to Lost, and from then on every mine cell of that
\* board is revealed, whatever commands follow, until a new round replaces the board.
C14_LossShowsAllMines ==
    /\ [][(/\ Processes("playing", "select")
           /\ board.cells[Cursor(game_state)].has_mine
           /\ can_reveal(board.cells[Cursor(game_state)]))
             => (game_state'.status = "lost" /\ AllMinesShown(board'))]_vars
    /\ [](game_state.status = "lost" => (board.is_initialized /\ AllMinesShown(board)))
    /\ [][(/\ board # None
           /\ board.is_initialized
           /\ AllMinesShown(board)
           /\ ~NewRound)
             => (/\ board'.mine_positions = board.mine_positions
                 /\ board'.is_initialized
                 /\ AllMinesShown(board'))]_vars

\* a round on the two-mine board was lost and the player is back in the menu: both
\* mines are shown, one of them flagged, safe cells still hidden
C14_Witness ==
    /\ game_state.status = "menu"
    /\ last.command = "move_down"
    /\ board # None
    /\ board.mine_count = 2
    /\ board.is_initialized
    /\ AllMinesShown(board)
    /\ \E p \in MineCells(board) : board.cells[p].is_flagged
    /\ ~(Positions(board) \ MineCells(board) \subseteq RevealedCells(board))

\* C15: in Playing, a Select whose reveal is accepted and hits no mine sets
\* cells_revealed to the number of revealed cells of the board and moves the phase to
\* Won exactly when, after the reveal and its cascade, every cell without a mine is
\* revealed; otherwise the phase stays Playing.  A rejected reveal (cursor cell
\* revealed or flagged) changes neither phase nor counters.
C15_SelectSafeCell ==
    [][Processes("playing", "select") =>
          LET cell == board.cells[Cursor(game_state)]
          IN IF ~can_reveal(cell)
             THEN /\ game_state' = game_state
                  /\ board' = board
             ELSE IF cell.has_mine \/ last'.raised
             THEN TRUE
             ELSE /\ board'.cells[Cursor(game_state)].is_revealed
                  /\ RevealedCells(board) \subseteq RevealedCells(board')
                  /\ game_state'.cells_revealed = Cardinality(RevealedCells(board'))
                  /\ game_state'.status =
                        IF Positions(board') \ MineCells(board') \subseteq RevealedCells(board')
                        THEN "won"
                        ELSE "playing"
                  /\ game_state' = [game_state EXCEPT
                                       !.cells_revealed = game_state'.cells_revealed,
                                       !.status = game_state'.status]]_vars

\* a round won by a Select, more than one reveal after it began, with a flag on the mine
C15_Witness ==
    /\ game_state.status = "won"
    /\ last.command = "select"
    /\ game_state.cells_revealed = safe_cells(board.difficulty)
    /\ game_state.flags_placed = 1
    /\ board.width = 3

\* C16: in Menu, MoveUp sets selected_menu_index to max(0, index - 1) and MoveDown to
\* min(number of difficulties, index + 1), the phase stays Menu and nothing else
\* changes; in every reachable state 0 <= selected_menu_index <= number of difficulties.
C16_MenuMoves ==
    /\ [][/\ Processes("menu", "move_up") =>
               (/\ game_state' = [game_state EXCEPT !.selected_menu_index = Max(0, @ - 1)]
                /\ board' = board)
          /\ Processes("menu", "move_down") =>
               (/\ game_state' = [game_state EXCEPT
                                     !.selected_menu_index = Min(Len(difficulties), @ + 1)]
                /\ board' = board)]_vars
    /\ [](game_state.selected_menu_index \in 0 .. Len(difficulties))

\* MoveUp in the menu of a fresh application has brought the index back to 1: it was
\* 2 before, two MoveDown at least were needed
C16_Witness ==
    /\ game_state.status = "menu"
    /\ last.command = "move_up"
    /\ game_state.selected_menu_index = 1
    /\ board = None

\* C17: in Menu, Select on a difficulty (index below their number) moves the phase to
\* Playing with that difficulty as current_difficulty, the cursor at (0, 0), both
\* counters 0 and a new board of that difficulty: not initialized, no mine, no cell
\* revealed or flagged; whatever the round before left behind.
C17_MenuSelectStartsRound ==
    [][NewRound =>
          LET d == difficulties[game_state.selected_menu_index + 1]
          IN /\ game_state'.status = "playing"
             /\ game_state'.current_difficulty = d
             /\ game_state'.cursor_x = 0 /\ game_state'.cursor_y = 0
             /\ game_state'.flags_placed = 0
             /\ game_state'.cells_revealed = 0
             /\ game_state'.selected_menu_index = game_state.selected_menu_index
             /\ board'.difficulty = d
             /\ board'.width = d.width /\ board'.height = d.height
             /\ board'.mine_count = d.mine_count
             /\ DOMAIN board'.cells = Positions(d)
             /\ ~board'.is_initialized
             /\ board'.mine_positions = {}
             /\ MineCells(board') = {}
             /\ RevealedCells(board') = {}
             /\ FlaggedCells(board') = {}
             /\ \A p \in Positions(d) : board'.cells[p].adjacent_mines = 0]_vars

\* a round just started on the third difficulty, from the menu
C17_Witness ==
    /\ game_state.status = "playing"
    /\ last.command = "select"
    /\ game_state.selected_menu_index = 2
    /\ board = GameBoard(difficulties[3])
    /\ game_state.flags_placed = 0

\* C18: in Menu, Exit, and Select on the exit entry (index = number of difficulties),
\* move the phase to Exited and change nothing else: no board is created, cursor,
\* counters and current_difficulty stay.
C18_MenuExit ==
    [][(\/ Processes("menu", "exit")
        \/ /\ Processes("menu", "select")
           /\ game_state.selected_menu_index = Len(difficulties))
          => /\ game_state' = [game_state EXCEPT !.status = "exited"]
             /\ board' = board]_vars

\* the application was left through the exit entry after a round: the round's board
\* and counters are as they were
C18_Witness ==
    /\ game_state.status = "exited"
    /\ last.command = "select"
    /\ game_state.selected_menu_index = Len(difficulties)
    /\ board # None
    /\ game_state.cells_revealed > 0

\* C19: once the phase is Exited every command is ignored: the phase stays Exited and
\* neither the GameState nor the board changes again.
C19_ExitedIsTerminal ==
    [][game_state.status = "exited" => (game_state' = game_state /\ board' = board)]_vars

\* Select was processed in Exited with a difficulty selected, and no round began
C19_Witness ==
    /\ game_state.status = "exited"
    /\ last.command = "select"
    /\ game_state.selected_menu_index < Len(difficulties)

\* the cursor moved by <<dx, dy>> and kept on a board of this difficulty
Clamped(gs, dx, dy) ==
    [gs EXCEPT !.cursor_x = Max(0, Min(gs.current_difficulty.width - 1, @ + dx)),
               !.cursor_y = Max(0, Min(gs.current_difficulty.height - 1, @ + dy))]

\* C20: in Playing, MoveUp / MoveDown / MoveLeft / MoveRight move the cursor by
\* (0,-1) / (0,+1) / (-1,0) / (+1,0), kept inside [0, width-1] x [0, height-1] without
\* wraparound, and change nothing else; in every Playing state the cursor is on the
\* current board.
C20_CursorMoves ==
    /\ [][/\ Processes("playing", "move_up") =>
               (game_state' = Clamped(game_state, 0, -1) /\ board' = board)
          /\ Processes("playing", "move_down") =>
               (game_state' = Clamped(game_state, 0, 1) /\ board' = board)
          /\ Processes("playing", "move_left") =>
               (game_state' = Clamped(game_state, -1, 0) /\ board' = board)
          /\ Processes("playing", "move_right") =>
               (game_state' = Clamped(game_state, 1, 0) /\ board' = board)]_vars
    /\ [](game_state.status = "playing" =>
            /\ board # None
            /\ board.difficulty = game_state.current_difficulty
            /\ Cursor(game_state) \in Positions(board))

\* the cursor in the far corner of the 3x2 board, after MoveDown
C20_Witness ==
    /\ game_state.status = "playing"
    /\ last.command = "move_down"
    /\ board.width = 3 /\ board.height = 2
    /\ Cursor(game_state) = <<2, 1>>

\* C21: in Playing, Flag on a cursor cell that is not revealed flips that cell's flag
\* and changes flags_placed by +1 when the flag was set and by -1 when it was cleared;
\* Flag on a revealed cursor cell changes neither the board nor flags_placed; the
\* phase stays Playing and nothing else changes.
C21_FlagCommand ==
    [][Processes("playing", "flag") =>
          LET c == Cursor(game_state)
              cell == board.cells[c]
          IN IF ~cell.is_revealed
             THEN /\ board' = [board EXCEPT !.cells[c].is_flagged = ~cell.is_flagged]
                  /\ game_state' = [game_state EXCEPT
                                       !.flags_placed = IF cell.is_flagged THEN @ - 1 ELSE @ + 1]
             ELSE /\ board' = board
                  /\ game_state' = game_state]_vars

\* Flag has just cleared the flag under the cursor in a round with cells revealed
C21_Witness ==
    /\ game_state.status = "playing"
    /\ last.command = "flag"
    /\ ~board.cells[Cursor(game_state)].is_revealed
    /\ ~board.cells[Cursor(game_state)].is_flagged
    /\ game_state.flags_placed = 0
    /\ game_state.cells_revealed > 0

\* C22 as stated: in Playing, Exit moves the phase to Menu with selected_menu_index 0
\* and discards the board of the round: afterwards the controller holds no board.
C22_PlayingExitDiscardsBoard ==
    [][Processes("playing", "exit") =>
          /\ game_state'.status = "menu"
          /\ game_state'.selected_menu_index = 0
          /\ board' = None]_vars

\* the finished round: Won or Lost
RoundOver == game_state.status \in {"won", "lost"}

\* C23: in Won or Lost, Select and Exit each move the phase to Menu and set
\* selected_menu_index to 0 (in _process_command and in process_game_over_command).
C23_GameOverToMenu ==
    /\ [][(RoundOver /\ last'.op = "command" /\ last'.command \in {"select", "exit"})
             => /\ game_state' = [game_state EXCEPT !.status = "menu",
                                                    !.selected_menu_index = 0]
                /\ board' = board]_vars
    /\ [](RoundOver =>
            \A command \in {"select", "exit"} :
                process_game_over_command(Controller(game_state, board), command).game_state
                    = [game_state EXCEPT !.status = "menu", !.selected_menu_index = 0])

\* Select has brought a won round on the third difficulty back to the menu, index 0
C23_Witness ==
    /\ game_state.status = "menu"
    /\ last.command = "select"
    /\ game_state.selected_menu_index = 0
    /\ game_state.current_difficulty = difficulties[3]
    /\ board # None
    /\ Positions(board) \ MineCells(board) \subseteq RevealedCells(board)
    /\ board.is_initialized

Unlisted(status) ==
    IF status = "menu" THEN {"move_left", "move_right", "flag", "unknown"} ELSE {"unknown"}

\* C25: in every phase a command the transition table does not list for it
\* (MoveLeft, MoveRight, Flag in Menu; the unknown command everywhere) leaves the
\* whole controller state unchanged and raises no error.
C25_UnlistedCommandIsNoOp ==
    [][(last'.op = "command" /\ last'.command \in Unlisted(game_state.status))
          => (game_state' = game_state /\ board' = board /\ ~last'.raised)]_vars

\* the unknown command was processed in a round, over a hidden, unflagged cursor cell
C25_Witness ==
    /\ game_state.status = "playing"
    /\ last.command = "unknown"
    /\ last.op = "command"
    /\ can_reveal(board.cells[Cursor(game_state)])
    /\ game_state.cells_revealed > 0

\* C26: constructing a Difficulty fails, and makes no object, exactly when
\* width <= 0, height <= 0, mine_count <= 0 or mine_count >= width*height; every
\* Difficulty a controller offers satisfies 0 < mine_count < width*height.
C26_DifficultyValidity ==
    /\ last.op = "Difficulty" =>
          /\ last.raised <=> (\/ last.fields.width <= 0
                              \/ last.fields.height <= 0
                              \/ last.fields.mine_count <= 0
                              \/ last.fields.mine_count >=
                                    last.fields.width * last.fields.height)
          /\ last.raised <=> (last.value = None)
          /\ ~last.raised => last.value = last.fields
    /\ last.op \in {"Difficulty", "add_custom_difficulty"} =>
          \A i \in DOMAIN last.difficulties :
              /\ 0 < last.difficulties[i].mine_count
              /\ last.difficulties[i].mine_count <
                    last.difficulties[i].width * last.difficulties[i].height

\* a 3x3 Difficulty with 8 mines was made and is offered as the fourth entry
C26_Witness ==
    /\ last.op = "add_custom_difficulty"
    /\ Len(last.difficulties) = Len(DEFAULT_DIFFICULTIES) + 1
    /\ last.difficulties[Len(last.difficulties)] = Difficulty("Custom", 3, 3, 8)

\* C27: for a valid Difficulty and a safe coordinate on the board, generate_mines
\* fails exactly when mine_count exceeds the number of board coordinates that are
\* neither the safe coordinate nor one of its neighbours, and succeeds otherwise.
C27_PlacementErrorExactly ==
    (/\ gen.state \in {"returned", "raised"}
     /\ is_valid(gen.difficulty)
     /\ OnBoard(gen.difficulty, gen.safe_position))
    => (gen.state = "raised" <=>
            gen.difficulty.mine_count >
                Cardinality(FarCells(gen.difficulty, gen.safe_position)))

\* the 3x3 board with one mine and the safe coordinate in the centre: the call failed
C27_Witness ==
    /\ gen.state = "raised"
    /\ gen.difficulty = Difficulty("Test", 3, 3, 1)
    /\ gen.safe_position = <<1, 1>>

\* C28: when mine generation fails inside the first reveal_cell call of a round, the
\* board is left as it was before the call (not initialized, mine set empty, no cell
\* with a mine, the target cell not revealed) and phase, cursor and counters of the
\* controller are unchanged, the phase still Playing; only such a call fails.
C28_FailedPlacementChangesNothing ==
    [][(last'.op = "command" /\ last'.raised) =>
          /\ Processes("playing", "select")
          /\ ~board.is_initialized
          /\ board' = board
          /\ game_state' = game_state
          /\ game_state'.status = "playing"
          /\ ~board'.is_initialized
          /\ board'.mine_positions = {}
          /\ MineCells(board') = {}
          /\ ~board'.cells[Cursor(game_state)].is_revealed]_vars

\* the first Select of a round on the 3x2 board, in the middle column, has just
\* failed; a flag set before is still there and a reveal in a corner can place the mine
C28_Witness ==
    /\ last.op = "command" /\ last.raised
    /\ game_state.status = "playing"
    /\ Cursor(game_state) = <<1, 1>>
    /\ game_state.flags_placed = 1
    /\ ~board.is_initialized
    /\ RevealedCells(board) = {}
    /\ ~initialize_mines_raises(board, <<0, 0>>)

\* the safe cells of the board are all revealed
AllSafeRevealed(b) == (Positions(b) \ MineCells(b)) \subseteq RevealedCells(b)

\* the step in which the running Select command goes on after reveal_cell
SelectResumes == last.op = "running" /\ last' # last

\* C29: the flood fill of a Select runs to its end inside that command: the cascade
\* only runs while the Select is being processed and nothing else is processed or
\* written meanwhile; the command goes on only when the cascade has returned, on the
\* board with the whole zero region revealed, where it sets cells_revealed to the
\* number of revealed cells and turns to Won exactly when every safe cell is
\* revealed; so no Playing state between two commands has a solved board.
C29_SelectCascadesWithinOneCommand ==
    /\ [](stack # <<>> => last.op = "running")
    /\ [][(last.op = "running" /\ ~SelectResumes) => game_state' = game_state]_vars
    /\ [][SelectResumes =>
             /\ stack = <<>>
             /\ last' = Delivered("select", FALSE)
             /\ board = reveal_cell(entry, game_state.cursor_x, game_state.cursor_y,
                                    board.mine_positions).board
             /\ IF board.cells[Cursor(game_state)].has_mine
                THEN game_state'.status = "lost"
                ELSE /\ RevealedCells(board) \ RevealedCells(entry)
                           = ZeroPathClosure({Cursor(game_state)})
                     /\ board' = board
                     /\ game_state'.cells_revealed = Cardinality(RevealedCells(board))
                     /\ game_state'.status =
                           IF AllSafeRevealed(board) THEN "won" ELSE "playing"]_vars
    /\ []((game_state.status = "playing" /\ last.op # "running")
             => ~AllSafeRevealed(board))

\* a Select on a zero cell has just won the round by its cascade
C29_Witness ==
    /\ last = Delivered("select", FALSE)
    /\ game_state.status = "won"
    /\ stack = <<>>
    /\ ZeroCell(board, Cursor(game_state))
    /\ game_state.cells_revealed >= 3
    /\ game_state.cells_revealed = Cardinality(RevealedCells(board))
    /\ FlaggedCells(board) = {}

\* the hidden, unflagged cells next to a revealed zero cell
Open(b) ==
    {q \in Positions(b) :
        /\ ~b.cells[q].is_revealed
        /\ ~b.cells[q].is_flagged
        /\ \E p \in RevealedCells(b) : p # q /\ Near(p, q) /\ ZeroCell(b, p)}

\* a round is on or over: the board shown is the round's
InRound == game_state.status \in {"playing", "won", "lost"}

\* the cells whose flag the step's Flag command removes
FlagRemoved ==
    IF Processes("playing", "flag")
    THEN FlaggedCells(board) \ FlaggedCells(board')
    ELSE {}

\* C30 as stated: in every state of a round every in-bounds neighbour of a revealed
\* non-mine cell without mined neighbours is revealed or flagged.
C30_RevealedRegionClosed == InRound => Open(board) = {}

\* C30: a round starts with no hidden unflagged cell next to a revealed zero cell,
\* and a command adds such a cell only by removing its flag: every in-bounds
\* neighbour of a revealed zero cell is revealed, flagged, or had its flag removed
\* after the zero cell was revealed; a Select leaves none behind of its own.
C30_ClosedButForRemovedFlags ==
    [][game_state'.status \in {"playing", "won", "lost"} =>
          IF NewRound
          THEN Open(board') = {}
          ELSE /\ Open(board') \subseteq Open(board) \cup FlagRemoved
               /\ Processes("playing", "select") => Open(board') \subseteq Open(board)]_vars

\* a Flag command has just removed the flag of a cell next to a revealed zero cell
C30_Witness ==
    /\ game_state.status = "playing"
    /\ last = Delivered("flag", FALSE)
    /\ Open(board) = {Cursor(game_state)}
    /\ game_state.flags_placed = 0

\* the step is an accepted Select on a board whose mines are not placed yet
FirstReveal ==
    /\ Processes("playing", "select")
    /\ ~board.is_initialized
    /\ board' # board

\* C31: the first accepted Select of a round places the mines, lands on a cell
\* without a mine and without mined neighbours, reveals it with every in-bounds
\* neighbour that is not flagged, reveals no mine and never moves the phase to
\* Lost, whatever flags were placed before.
C31_FirstRevealIsSafe ==
    [][FirstReveal =>
          LET c == Cursor(game_state)
          IN /\ board'.is_initialized
             /\ ~board'.cells[c].has_mine
             /\ board'.cells[c].adjacent_mines = 0
             /\ board'.cells[c].is_revealed
             /\ \A q \in Neighbours(board', c) :
                   /\ ~board'.cells[q].has_mine
                   /\ board'.cells[q].is_revealed = ~board.cells[q].is_flagged
             /\ MineCells(board') \cap RevealedCells(board') = {}
             /\ game_state'.status \in {"playing", "won"}]_vars

\* a first Select has revealed its cell and the neighbours but the flagged one
C31_Witness ==
    /\ game_state.status = "playing"
    /\ last = Delivered("select", FALSE)
    /\ board.is_initialized
    /\ ZeroCell(board, Cursor(game_state))
    /\ FlaggedCells(board) \cap Neighbours(board, Cursor(game_state)) # {}
    /\ RevealedCells(board)
         = ({Cursor(game_state)} \cup Neighbours(board, Cursor(game_state)))
              \ FlaggedCells(board)

\* C32: in every state of a round, whatever was done before (flags set before the
\* mines were placed, cascades, a loss), flags_placed is the number of flagged cells
\* get_flag_count counts on the board, and is never negative.
C32_FlagsPlacedIsFlagCount ==
    InRound =>
        /\ game_state.flags_placed = get_flag_count(board)
        /\ game_state.flags_placed = Cardinality(FlaggedCells(board))
        /\ game_state.flags_placed >= 0

\* a round lost after a cascade, with a flag standing on a mine that was shown
C32_Witness ==
    /\ game_state.status = "lost"
    /\ game_state.flags_placed = 1
    /\ game_state.cells_revealed >= 2
    /\ FlaggedCells(board) \cap MineCells(board) # {}

\* C33 as stated: in every state of a round cells_revealed is get_revealed_count().
C33_CellsRevealedIsRevealedCount ==
    InRound => game_state.cells_revealed = get_revealed_count(board)

\* C33: in every state of a round cells_revealed is the number of revealed cells
\* without a mine; in Playing and Won that is get_revealed_count(), in Lost
\* get_revealed_count() counts the mines shown as well, mine_count more.
C33_CellsRevealedIsSafeRevealedCount ==
    InRound =>
        /\ game_state.cells_revealed = Cardinality(RevealedCells(board) \ MineCells(board))
        /\ game_state.status # "lost" =>
              game_state.cells_revealed = get_revealed_count(board)
        /\ game_state.status = "lost" =>
              get_revealed_count(board) = game_state.cells_revealed + board.mine_count

\* a round lost after a cascade: the mines are shown and not counted
C33_Witness ==
    /\ game_state.status = "lost"
    /\ game_state.cells_revealed >= 2
    /\ get_revealed_count(board) = game_state.cells_revealed + board.mine_count
    /\ AllMinesShown(board)

\* C34: in every state of a round the phase is Won exactly when is_solved() holds
\* of the board, that is when the mines are placed and every cell without a mine
\* is revealed: Won implies solved, Playing and Lost imply not solved.
C34_PhaseTracksIsSolved ==
    InRound =>
        /\ game_state.status = "won" <=> is_solved(board)
        /\ is_solved(board) <=> (board.is_initialized /\ AllSafeRevealed(board))

\* a round won with a flag on the board
C34_Witness ==
    /\ game_state.status = "won"
    /\ is_solved(board)
    /\ FlaggedCells(board) # {}
    /\ last = Delivered("select", FALSE)

\* C35: in every Playing or Won state no mine cell is revealed: a revealed mine is
\* seen in a lost round only, and no cascade reveals one.
C35_MinesShownOnlyWhenLost ==
    game_state.status \in {"playing", "won"} =>
        MineCells(board) \cap RevealedCells(board) = {}

\* a Select has cascaded up to the numbered cells next to the mines and the round
\* goes on
C35_Witness ==
    /\ game_state.status = "playing"
    /\ last = Delivered("select", FALSE)
    /\ board.is_initialized
    /\ game_state.cells_revealed >= 3
    /\ \E p \in RevealedCells(board) : \E q \in MineCells(board) : Near(p, q)
    /\ MineCells(board) \cap RevealedCells(board) = {}

\* the cells both revealed and flagged
RevealedAndFlagged(b) == RevealedCells(b) \cap FlaggedCells(b)

\* C36 as stated: in every state, of whatever phase, a cell of the board the
\* controller holds is both revealed and flagged only if it holds a mine and the
\* phase is Lost.
C36_RevealedAndFlaggedOnlyLostMine ==
    IF board = None
    THEN TRUE
    ELSE /\ RevealedAndFlagged(board) \subseteq MineCells(board)
         /\ RevealedAndFlagged(board) # {} => game_state.status = "lost"

\* within the phases of a round the statement holds: in Playing and Won no cell is
\* both revealed and flagged, in Lost only mine cells are
RevealedAndFlaggedInRound ==
    InRound =>
        /\ RevealedAndFlagged(board) \subseteq MineCells(board)
        /\ RevealedAndFlagged(board) # {} => game_state.status = "lost"

\* the step replaces the board: a new round starts
BoardReplaced == last'.op = "command" /\ NewRound

\* C37: until a new round replaces the board, a revealed cell stays revealed under
\* every GameBoard operation and every command, so get_revealed_count() never
\* decreases during a round.
C37_RevealIsMonotonic ==
    [][(board # None /\ ~BoardReplaced) =>
          /\ RevealedCells(board) \subseteq RevealedCells(board')
          /\ get_revealed_count(board') >= get_revealed_count(board)]_vars

\* a round is lost and what was revealed before the mines were shown still is
C37_Witness ==
    /\ game_state.status = "lost"
    /\ last = Delivered("select", FALSE)
    /\ Cardinality(RevealedCells(board) \ MineCells(board)) >= 2
    /\ MineCells(board) \subseteq RevealedCells(board)
    /\ FlaggedCells(board) = {}

\* what the controller's GameState is after the command, from game_state and board
After(gs, b, command) == process_command(Controller(gs, b), command, {}).game_state

\* C38: Exit is never ignored outside Exited: a step that processes Exit leads from
\* Playing, Won and Lost to Menu and from Menu to Exited without an error, so in
\* every state with a phase other than Exited, Exit delivered twice in a row ends
\* in Exited.
C38_ExitTwiceReachesExited ==
    /\ [][(game_state.status # "exited" /\ last'.op = "command" /\ last'.command = "exit")
             => /\ ~last'.raised
                /\ game_state'.status =
                      IF game_state.status = "menu" THEN "exited" ELSE "menu"
                /\ After(game_state', board', "exit").status = "exited"]_vars
    /\ [](game_state.status # "exited" =>
             After(After(game_state, board, "exit"), board, "exit").status = "exited")

\* Exit has just led from a round being played to the menu, one Exit away from Exited
C38_Witness ==
    /\ game_state.status = "menu"
    /\ last = Delivered("exit", FALSE)
    /\ board # None
    /\ After(game_state, board, "exit").status = "exited"

\* C39: on each of the three shipped boards (9x9 with 10 mines, 16x16 with 40,
\* 30x16 with 99) the first reveal raises no placement error at any coordinate:
\* the positions left after discarding the safe zone are at least mine_count.
C39_ShippedBoardsAlwaysPlace ==
    /\ gen.state # "raised"
    /\ is_valid(gen.difficulty)
    /\ Cardinality(candidate_positions(gen.difficulty, gen.safe_position))
          >= gen.difficulty.mine_count
    /\ ~generate_mines_raises(gen.difficulty, gen.safe_position)

\* the first reveal in the middle of the Expert board has gone on to draw 99 of the
\* 471 positions left
C39_Witness ==
    /\ gen.state = "drawing"
    /\ gen.difficulty = ShippedDifficulties[3]
    /\ gen.safe_position = <<15, 8>>
    /\ Cardinality(candidate_positions(gen.difficulty, gen.safe_position)) = 471

\* C40: restart_current_game returns False and changes nothing when no round was
\* ever started (current_difficulty is None); otherwise it returns True, replaces
\* the board with a fresh board of the same difficulty, no mine placed and nothing
\* revealed or flagged, puts the cursor at the origin, zeroes both counters and
\* sets the phase to Playing, from whatever phase it is called in.
C40_RestartCurrentGame ==
    [][last'.op = "restart_current_game" =>
          IF game_state.current_difficulty = None
          THEN /\ ~last'.returned
               /\ game_state' = game_state
               /\ board' = board
          ELSE /\ last'.returned
               /\ board' = GameBoard(game_state.current_difficulty)
               /\ board'.difficulty = game_state.current_difficulty
               /\ ~board'.is_initialized
               /\ MineCells(board') = {}
               /\ RevealedCells(board') = {}
               /\ FlaggedCells(board') = {}
               /\ game_state' = [game_state EXCEPT !.status = "playing",
                                                   !.start_time = time_time,
                                                   !.cursor_x = 0,
                                                   !.cursor_y = 0,
                                                   !.flags_placed = 0,
                                                   !.cells_revealed = 0]]_vars

\* the Expert round that was being played or was over has been restarted
C40_Witness ==
    /\ last = Restarted(TRUE)
    /\ game_state.status = "playing"
    /\ game_state.selected_menu_index = 2
    /\ game_state.current_difficulty = difficulties[3]
    /\ board = GameBoard(difficulties[3])
    /\ game_state.flags_placed = 0
    /\ game_state.cells_revealed = 0

=============================================================================
